---- MODULE Spec2Model ----
(***************************************************************************)
(* Research Park job monitor: the hourly pipeline (update_jobs.py), the    *)
(* subscriber store (database.py) and the web handlers that write to the   *)
(* store (app.py).                                                         *)
(*                                                                         *)
(* A job is a Python dict, modelled as a function from key to value: a key *)
(* that the dict does not hold is a key outside DOMAIN.                    *)
(***************************************************************************)
EXTENDS Integers, Sequences, FiniteSets, TLC

VARIABLES
    pc,             \* position of the pipeline process inside main()
    clock,          \* wall clock, in minutes
    current_jobs,   \* main(): the list returned by parse_job_board()
    existing_jobs,  \* main(): the list returned by load_existing_jobs()
    new_jobs,       \* main(): the list returned by find_new_jobs(), as
                    \* references (indices) into current_jobs
    subscribers,    \* table subscribers: a set of rows
    issued,         \* number of uuid4 tokens generated so far
    last,           \* the most recent call on the store: arguments, the
                    \* lifecycle state of the row before it, what it returned
    environ,        \* os.environ of both processes
    world,          \* which of the outside services can fail: the database,
                    \* the working directory,
                    \* the feed, the provider, the mail transport
    upstream,       \* the listings the job board holds, in feed order
    jobs_file,      \* jobs.json
    new_jobs_file,  \* new_jobs.json
    readme_file,    \* JOBS.md: the ids of the table rows
    stats_snapshots,\* table stats_snapshots, in id order
    db_subscribers, \* send_email(): the list get_active_subscribers() gave
    outbox,         \* the messages the SMTP session of this run accepted
    delivered,      \* every <<address, job id>> ever mailed, with its count
    runs,           \* pipeline runs started, counted against MaxRuns
    history,        \* what the program does not keep: the new jobs counted
                    \* since the ledger was seeded, the <<address, job id>>
                    \* pairs a dispatch planned and did not send, whether
                    \* the mail session of this run failed, what this run
                    \* asked the provider and was answered, and the flag
                    \* and the count of the missing-key warning
    race,           \* two store calls in flight on one row, statement by
                    \* statement
    fetch           \* parse_job_board(): the page loop, its requests and
                    \* what they returned

locals == <<current_jobs, existing_jobs, new_jobs>>
files == <<jobs_file, new_jobs_file, readme_file>>
store == <<subscribers, issued, last>>
mail == <<db_subscribers, outbox, delivered>>
vars == <<pc, clock, current_jobs, existing_jobs, new_jobs,
          subscribers, issued, last, environ, world, upstream, jobs_file,
          new_jobs_file, readme_file, stats_snapshots, db_subscribers,
          outbox, delivered, runs, history, race, fetch>>

----------------------------------------------------------------------------
(* Bounds of the model *)

MaxCur == 2         \* longest fetched board drawn as an input of the diff
MaxPrev == 2        \* longest previous snapshot drawn as an input of the diff
MaxClock == 2       \* the clock stops advancing here
MaxRuns == 3        \* pipeline runs started

JobIds == {"j1", "j2"}
Positions == {"Software Intern", "Senior Engineer"}
BadgeSets == {"badges_a"}

----------------------------------------------------------------------------
(* The outside services.  A service that is "up" answers every call; one
   that is "flaky" answers or fails, call by call. *)

Healthy ==
    [db |-> "up", feed |-> "up", provider |-> "up", smtp |-> "up", disk |-> "up"]

\* whether jobs.json, when it exists, can be read and parsed
DiskOutcomes == IF world.disk = "up" THEN {TRUE} ELSE BOOLEAN
\* whether a call on the database succeeds
DbOutcomes == IF world.db = "up" THEN {TRUE} ELSE BOOLEAN
\* what a page request ends in
FeedOutcomes == IF world.feed = "up" THEN {"ok"} ELSE {"ok", "garbage", "down"}
\* the badge objects a provider can answer with
ProviderAnswers == {"badges_a", "badges_b"}
\* what the provider returns for one job
ProviderOutcomes ==
    IF world.provider = "up" THEN {"badges_a"}
    ELSE IF world.provider = "flaky" THEN ProviderAnswers \cup {"not json"}
    ELSE {"badges_a", "not json", "error", "json_list", "json_null"}
\* how many of n messages the mail session accepts before it fails
SmtpOutcomes(n) == IF world.smtp = "up" THEN {n} ELSE 0..n

----------------------------------------------------------------------------
(* Python dict and list helpers *)

HasKey(d, k) == k \in DOMAIN d
SetKey(d, k, v) == (k :> v) @@ d
\* A faulty variant: the key stays.
PopKeyKeeps(d, k) == d

\* dict.pop(k, None), and the comprehension that leaves k out
PopKey(d, k) == [f \in DOMAIN d \ {k} |-> d[f]]
Indices(s) == [i \in 1..Len(s) |-> i]
Ids(jobs) == {jobs[i].id : i \in DOMAIN jobs}
Deref(jobs, refs) == [k \in 1..Len(refs) |-> jobs[refs[k]]]

SeqsUpTo(S, n) == UNION {[1..k -> S] : k \in 0..n}

----------------------------------------------------------------------------
(* update_jobs.py: the diff *)

\* A faulty variant: compares whole records instead of ids.
FindNewJobsByRecord(current, existing) ==
    SelectSeq(Indices(current),
              LAMBDA i : current[i] \notin {existing[k] : k \in DOMAIN existing})

\* find_new_jobs: the jobs of current whose id is not among the existing ids,
\* as references into current (the list holds the very dicts of current).
FindNewJobs(current, existing) ==
    LET seen_ids == {existing[k].id : k \in DOMAIN existing}
    IN  SelectSeq(Indices(current), LAMBDA i : current[i].id \notin seen_ids)

\* existing_jobs_dict = {job["id"]: job for job in existing_jobs}: a later
\* record with the same id replaces an earlier one.
ExistingJobsDict(existing, id) ==
    existing[CHOOSE k \in DOMAIN existing :
                /\ existing[k].id = id
                /\ \A m \in DOMAIN existing : existing[m].id = id => m <= k]

\* A faulty variant: stamps every record with the run time.
PreserveMetadataRestamp(current, existing, now) ==
    [i \in DOMAIN current |-> SetKey(current[i], "discovered_date", now)]

\* A faulty variant: a job the previous snapshot knows keeps its whole
\* previous record.
PreserveMetadataWhole(current, existing, now) ==
    LET existing_ids == {existing[k].id : k \in DOMAIN existing}
    IN  [i \in DOMAIN current |->
            IF current[i].id \notin existing_ids
            THEN SetKey(current[i], "discovered_date", now)
            ELSE ExistingJobsDict(existing, current[i].id)]

\* main(), "Preserve metadata from existing jobs".
PreserveMetadata(current, existing, now) ==
    LET existing_ids == {existing[k].id : k \in DOMAIN existing}
        Carry(job) ==
            LET existing_job == ExistingJobsDict(existing, job.id)
                withDate == IF HasKey(existing_job, "discovered_date")
                            THEN SetKey(job, "discovered_date",
                                        existing_job.discovered_date)
                            ELSE job
            IN  IF HasKey(existing_job, "badges")
                THEN SetKey(withDate, "badges", existing_job.badges)
                ELSE withDate
    IN  [i \in DOMAIN current |->
            IF current[i].id \notin existing_ids
            THEN SetKey(current[i], "discovered_date", now)
            ELSE Carry(current[i])]

----------------------------------------------------------------------------
(* database.py: the subscriber store *)

Preferences == {"internship", "fulltime", "both"}
GrandfatherMinutes == 1
NoToken == 0

AlreadySubscribed == [success |-> TRUE, message |-> "Already subscribed!"]
NeedsConfirm(token) ==
    [success |-> TRUE,
     message |-> "Check your email to confirm your subscription.",
     token |-> token, needs_confirm |-> TRUE]
AddFailed ==
    [success |-> FALSE, message |-> "Failed to subscribe. Please try again."]

NoCall == [op |-> "none"]
NoHistory ==
    [found |-> 0, owed |-> {}, failed |-> FALSE, asked |-> {}, answers |-> {},
     key_warned |-> FALSE, warnings |-> 0]
NoRace == [phase |-> "none"]
NoFetch == [phase |-> "none"]

RowsOf(tbl, email) == {r \in tbl : r.email = email}
RowsWithToken(tbl, token) == {r \in tbl : r.unsubscribe_token = token}

\* UPDATE subscribers SET ... WHERE: set(r) is the row r after the SET clause.
Update(tbl, where(_), set(_)) ==
    {IF where(r) THEN set(r) ELSE r : r \in tbl}

\* email TEXT UNIQUE, unsubscribe_token TEXT UNIQUE: a statement that would
\* leave two rows with one email or one token raises.
UniqueOk(tbl) ==
    \A r1, r2 \in tbl :
        (r1.email = r2.email \/ r1.unsubscribe_token = r2.unsubscribe_token)
            => r1 = r2

\* init_db: "Grandfather existing active subscribers as confirmed".
InitDb(tbl, now) ==
    Update(tbl,
           LAMBDA r : r.active /\ ~r.confirmed
                        /\ r.subscribed_at < now - GrandfatherMinutes,
           LAMBDA r : [r EXCEPT !.confirmed = TRUE])

\* The rows add_subscriber leaves when it writes: the INSERT for an address
\* without row, the UPDATE of the pending branch, the UPDATE that reactivates.
AddWrites(tbl, email, pref, token, now) ==
    LET rows == RowsOf(tbl, email)
        row == CHOOSE r \in rows : TRUE
        pending == Update(tbl, LAMBDA r : r.email = email,
                          LAMBDA r : [r EXCEPT !.unsubscribe_token = token,
                                               !.preference = pref])
        reactivated == Update(tbl, LAMBDA r : r.email = email,
                              LAMBDA r : [r EXCEPT !.active = TRUE,
                                                   !.confirmed = FALSE,
                                                   !.unsubscribe_token = token,
                                                   !.preference = pref])
        inserted == tbl \cup {[email |-> email, unsubscribe_token |-> token,
                               preference |-> pref, active |-> TRUE,
                               confirmed |-> FALSE, subscribed_at |-> now]}
    IN  IF rows = {} THEN inserted
        ELSE IF row.active /\ ~row.confirmed THEN pending
        ELSE reactivated

\* A faulty variant: the pending branch inserts a second row.
AddSubscriberInsertAgain(tbl, email, preference, token, now, db_ok) ==
    LET rows == RowsOf(tbl, email)
        row == CHOOSE r \in rows : TRUE
        again == tbl \cup {[email |-> email, unsubscribe_token |-> token,
                            preference |-> preference, active |-> TRUE,
                            confirmed |-> FALSE, subscribed_at |-> now]}
    IN  IF ~db_ok THEN [tbl |-> tbl, ret |-> AddFailed]
        ELSE IF rows # {} /\ row.active /\ row.confirmed
             THEN [tbl |-> tbl, ret |-> AlreadySubscribed]
        ELSE IF rows # {} /\ row.active
             THEN [tbl |-> again, ret |-> NeedsConfirm(token)]
        ELSE [tbl |-> AddWrites(tbl, email, preference, token, now),
              ret |-> NeedsConfirm(token)]

\* A faulty variant: the already-subscribed branch stores the new preference.
AddSubscriberOverwrite(tbl, email, preference, token, now, db_ok) ==
    LET rows == RowsOf(tbl, email)
        row == CHOOSE r \in rows : TRUE
    IN  IF ~db_ok THEN [tbl |-> tbl, ret |-> AddFailed]
        ELSE IF rows # {} /\ row.active /\ row.confirmed
             THEN [tbl |-> Update(tbl, LAMBDA r : r.email = email,
                                  LAMBDA r : [r EXCEPT !.preference = preference]),
                   ret |-> AlreadySubscribed]
        ELSE [tbl |-> AddWrites(tbl, email, preference, token, now),
              ret |-> NeedsConfirm(token)]

\* add_subscriber: the table afterwards and the dict returned.  token is the
\* uuid4 generated on entry, now the time of the statement, db_ok whether the
\* connection and every statement succeed.
AddSubscriber(tbl, email, preference, token, now, db_ok) ==
    LET pref == IF preference \notin Preferences THEN "both" ELSE preference
        rows == RowsOf(tbl, email)
        row == CHOOSE r \in rows : TRUE
        after == AddWrites(tbl, email, pref, token, now)
    IN  IF ~db_ok THEN [tbl |-> tbl, ret |-> AddFailed]
        ELSE IF rows # {} /\ row.active /\ row.confirmed
             THEN [tbl |-> tbl, ret |-> AlreadySubscribed]
        ELSE IF ~UniqueOk(after) THEN [tbl |-> tbl, ret |-> AddFailed]
        ELSE [tbl |-> after, ret |-> NeedsConfirm(token)]

\* A faulty variant: the UPDATE matches on the token alone.
ConfirmSubscriberAnyRow(tbl, token, db_ok) ==
    LET hit(r) == r.unsubscribe_token = token
    IN  IF ~db_ok THEN [tbl |-> tbl, ret |-> FALSE]
        ELSE [tbl |-> Update(tbl, hit, LAMBDA r : [r EXCEPT !.confirmed = TRUE]),
              ret |-> \E r \in tbl : hit(r)]

\* confirm_subscriber
ConfirmSubscriber(tbl, token, db_ok) ==
    LET hit(r) == r.unsubscribe_token = token /\ r.active /\ ~r.confirmed
    IN  IF ~db_ok THEN [tbl |-> tbl, ret |-> FALSE]
        ELSE [tbl |-> Update(tbl, hit, LAMBDA r : [r EXCEPT !.confirmed = TRUE]),
              ret |-> \E r \in tbl : hit(r)]

\* remove_subscriber
RemoveSubscriber(tbl, token, db_ok) ==
    LET hit(r) == r.unsubscribe_token = token /\ r.active
    IN  IF ~db_ok THEN [tbl |-> tbl, ret |-> FALSE]
        ELSE [tbl |-> Update(tbl, hit, LAMBDA r : [r EXCEPT !.active = FALSE]),
              ret |-> \E r \in tbl : hit(r)]

\* A faulty variant: the read forgets the confirmed column.
GetActiveSubscribersUnconfirmed(tbl, db_ok) ==
    {[email |-> r.email, unsubscribe_token |-> r.unsubscribe_token,
      preference |-> r.preference] : r \in {x \in tbl : x.active}}

\* get_active_subscribers: the dicts returned (the SELECT has no ORDER BY:
\* the order of the list is chosen where the list is walked).
GetActiveSubscribers(tbl, db_ok) ==
    IF ~db_ok THEN {}
    ELSE {[email |-> r.email, unsubscribe_token |-> r.unsubscribe_token,
           preference |-> r.preference] :
             r \in {x \in tbl : x.active /\ x.confirmed}}

----------------------------------------------------------------------------
(* app.py: the handlers that call the store *)

MaxTokens == 2      \* uuid4 tokens the model generates

RawEmails == {"a@x.org", "A@x.org ", "b@x.org", "nobody", ""}
PreferenceArgs == {"internship", "weekly"}

\* data["email"].strip().lower()
StripLower(raw) ==
    CASE raw = "A@x.org " -> "a@x.org"
      [] raw = "Admin@x.org" -> "admin@x.org"
      [] OTHER -> raw
\* the address pattern of subscribe()
ValidEmail(email) == email \in {"a@x.org", "b@x.org"}

\* A faulty variant: the password is not looked at.
HasMailCredentialsSenderOnly == environ.EMAIL_SENDER

\* not sender_email or not sender_password, negated
HasMailCredentials == environ.EMAIL_SENDER /\ environ.EMAIL_PASSWORD

\* Where the row of an address, or of a token, stands in the lifecycle.
StateOf(rows) ==
    IF rows = {} THEN "absent"
    ELSE LET r == CHOOSE x \in rows : TRUE
         IN  IF ~r.active THEN "inactive"
             ELSE IF r.confirmed THEN "active" ELSE "pending"

\* The handlers are served while the pipeline is between runs or about to
\* read the store for the dispatch: the steps of a run that do not touch the
\* store commute with them.
Serving == pc \in {"idle", "crashed", "notify"}

\* The token of a request: the empty one, one of those issued so far or held
\* by a row, or one that was never issued.
Tokens == (0..(issued + 1)) \cup {r.unsubscribe_token : r \in subscribers}

\* subscribe(): POST /api/subscribe, without an address or with one the
\* pattern rejects
SubscribeRejected ==
    /\ Serving
    /\ \E raw \in RawEmails :
        /\ raw = "" \/ ~ValidEmail(StripLower(raw))
        /\ last' = [op |-> "subscribe", called |-> FALSE, status |-> 400,
                    success |-> FALSE]
    /\ UNCHANGED <<pc, clock, locals, subscribers, issued, environ, world, upstream,
                   files, stats_snapshots, mail, runs, history, race, fetch>>

\* subscribe(): POST /api/subscribe
Subscribe ==
    /\ Serving
    /\ issued < MaxTokens
    /\ \E raw \in RawEmails, preference_arg \in PreferenceArgs, db_ok \in DbOutcomes :
        LET email == StripLower(raw)
            preference == IF preference_arg \notin Preferences
                          THEN "both" ELSE preference_arg
            token == issued + 1
            result == AddSubscriber(subscribers, email, preference, token,
                                    clock, db_ok)
            ret == result.ret
            confirm_mail == HasKey(ret, "needs_confirm") /\ HasKey(ret, "token")
        IN  /\ raw # "" /\ ValidEmail(email)
            /\ issued' = issued + 1
            /\ subscribers' = result.tbl
            /\ last' = [op |-> "subscribe", called |-> TRUE, db_ok |-> db_ok,
                        email |-> email, preference |-> preference,
                        was |-> StateOf(RowsOf(subscribers, email)),
                        ret |-> ret,
                        mailed |-> IF confirm_mail /\ HasMailCredentials
                                   THEN ret.token ELSE NoToken,
                        status |-> IF ret.success THEN 200 ELSE 500,
                        success |-> ret.success]
    /\ UNCHANGED <<pc, clock, locals, environ, world, upstream, files,
                   stats_snapshots, mail, runs, history, race, fetch>>

\* confirm(): GET /confirm?token=
Confirm ==
    /\ Serving
    /\ \E token \in Tokens, db_ok \in DbOutcomes :
        LET result == ConfirmSubscriber(subscribers, token, db_ok)
        IN  IF token = NoToken
            THEN /\ last' = [op |-> "confirm", called |-> FALSE,
                             status |-> 400, success |-> FALSE]
                 /\ UNCHANGED subscribers
            ELSE /\ subscribers' = result.tbl
                 /\ last' = [op |-> "confirm", called |-> TRUE, db_ok |-> db_ok,
                             token |-> token,
                             was |-> StateOf(RowsWithToken(subscribers, token)),
                             ret |-> result.ret, status |-> 200,
                             success |-> result.ret]
    /\ UNCHANGED <<pc, clock, locals, issued, environ, world, upstream, files,
                   stats_snapshots, mail, runs, history, race, fetch>>

\* unsubscribe(): GET /unsubscribe?token=
Unsubscribe ==
    /\ Serving
    /\ \E token \in Tokens, db_ok \in DbOutcomes :
        LET result == RemoveSubscriber(subscribers, token, db_ok)
        IN  IF token = NoToken
            THEN /\ last' = [op |-> "unsubscribe", called |-> FALSE,
                             status |-> 400, success |-> FALSE]
                 /\ UNCHANGED subscribers
            ELSE /\ subscribers' = result.tbl
                 /\ last' = [op |-> "unsubscribe", called |-> TRUE,
                             db_ok |-> db_ok, token |-> token,
                             was |-> StateOf(RowsWithToken(subscribers, token)),
                             ret |-> result.ret, status |-> 200,
                             success |-> result.ret]
    /\ UNCHANGED <<pc, clock, locals, issued, environ, world, upstream, files,
                   stats_snapshots, mail, runs, history, race, fetch>>

\* admin_remove_subscriber(): POST /api/remove-subscriber, past require_admin
AdminRemoveSubscriber ==
    /\ Serving
    /\ environ.ADMIN_KEY
    /\ \E raw \in RawEmails \ {""}, db_ok \in DbOutcomes :
        /\ subscribers' = IF db_ok THEN subscribers \ RowsOf(subscribers, raw)
                          ELSE subscribers
        /\ last' = [op |-> "admin_remove", called |-> TRUE, db_ok |-> db_ok,
                    email |-> raw,
                    status |-> IF db_ok THEN 200 ELSE 500,
                    success |-> db_ok /\ RowsOf(subscribers, raw) # {}]
    /\ UNCHANGED <<pc, clock, locals, issued, environ, world, upstream, files,
                   stats_snapshots, mail, runs, history, race, fetch>>

\* "Initialize DB on startup": init_db() when the web process starts; a
\* failure is logged.
AppStartup ==
    /\ Serving
    /\ \E db_ok \in DbOutcomes :
        /\ subscribers' = IF db_ok THEN InitDb(subscribers, clock)
                          ELSE subscribers
        /\ last' = [op |-> "init_db", called |-> TRUE, by |-> "app",
                    db_ok |-> db_ok]
    /\ UNCHANGED <<pc, clock, locals, issued, environ, world, upstream, files,
                   stats_snapshots, mail, runs, history, race, fetch>>

\* A minute passes.  A run reads the clock within one minute: time moves
\* between runs.
Tick ==
    /\ pc \in {"idle", "crashed"}
    /\ clock < MaxClock
    /\ clock' = clock + 1
    /\ UNCHANGED <<pc, locals, store, environ, world, upstream, files,
                   stats_snapshots, mail, runs, history, race, fetch>>

----------------------------------------------------------------------------
(* database.py: two store calls at once.  Each call runs in a transaction of
   its own at the default isolation level: a statement sees what was
   committed before it, and the SELECT of add_subscriber locks nothing.
   confirm_subscriber and remove_subscriber are one UPDATE each; the write
   of add_subscriber is one statement, committed at once. *)

RaceCalls ==
    [op : {"add"}, email : {"a@x.org"}, preference : {"internship", "both"}, token : {0}]
        \cup [op : {"confirm", "remove"}, email : {"a@x.org"}, preference : {"both"}, token : {101}]

\* The rows the two calls can find: none, or the row of a@x.org as pending,
\* active and confirmed, or unsubscribed.
RaceTables ==
    {{}} \cup {{[email |-> "a@x.org", unsubscribe_token |-> 101, preference |-> "fulltime", active |-> a, confirmed |-> c, subscribed_at |-> 0]} : a, c \in BOOLEAN}

\* The uuid4 of call i.
RaceToken(i) == i

\* add_subscriber after its SELECT returned a row in state seen: the
\* statement it executes on the table as it is now, and what it returns.
AddWriteAfter(tbl, seen, email, pref, token, now) ==
    LET pending == Update(tbl, LAMBDA r : r.email = email,
                          LAMBDA r : [r EXCEPT !.unsubscribe_token = token,
                                               !.preference = pref])
        reactivated == Update(tbl, LAMBDA r : r.email = email,
                              LAMBDA r : [r EXCEPT !.active = TRUE,
                                                   !.confirmed = FALSE,
                                                   !.unsubscribe_token = token,
                                                   !.preference = pref])
        inserted == tbl \cup {[email |-> email, unsubscribe_token |-> token,
                               preference |-> pref, active |-> TRUE,
                               confirmed |-> FALSE, subscribed_at |-> now]}
        after == IF seen = "absent" THEN inserted
                 ELSE IF seen = "pending" THEN pending
                 ELSE reactivated
    IN  IF seen = "active" THEN [tbl |-> tbl, ret |-> AlreadySubscribed]
        ELSE IF ~UniqueOk(after) THEN [tbl |-> tbl, ret |-> AddFailed]
        ELSE [tbl |-> after, ret |-> NeedsConfirm(token)]

\* One call, from its first statement to its return.
CallAtOnce(tbl, c, i, now) ==
    IF c.op = "add"
    THEN AddSubscriber(tbl, c.email, c.preference, RaceToken(i), now, TRUE)
    ELSE IF c.op = "confirm" THEN ConfirmSubscriber(tbl, c.token, TRUE)
    ELSE RemoveSubscriber(tbl, c.token, TRUE)

\* add_subscriber of call i: the SELECT
RaceSelect(i) ==
    /\ race.phase = "run"
    /\ race.calls[i].op = "add"
    /\ race.at[i] = "ready"
    /\ race' = [race EXCEPT
          !.at[i] = "read",
          !.seen[i] = StateOf(RowsOf(subscribers, race.calls[i].email))]
    /\ UNCHANGED <<pc, clock, locals, store, environ, world, upstream, files,
                   stats_snapshots, mail, runs, history, fetch>>

\* add_subscriber of call i: the statement after the SELECT, and the commit
RaceWrite(i) ==
    /\ race.phase = "run"
    /\ race.at[i] = "read"
    /\ LET c == race.calls[i]
           result == AddWriteAfter(subscribers, race.seen[i], c.email,
                                   c.preference, RaceToken(i), clock)
       IN  /\ subscribers' = result.tbl
           /\ race' = [race EXCEPT !.at[i] = "done", !.ret[i] = result.ret]
    /\ UNCHANGED <<pc, clock, locals, issued, last, environ, world, upstream,
                   files, stats_snapshots, mail, runs, history, fetch>>

\* confirm_subscriber or remove_subscriber of call i
RaceUpdate(i) ==
    /\ race.phase = "run"
    /\ race.calls[i].op # "add"
    /\ race.at[i] = "ready"
    /\ LET result == CallAtOnce(subscribers, race.calls[i], i, clock)
       IN  /\ subscribers' = result.tbl
           /\ race' = [race EXCEPT !.at[i] = "done", !.ret[i] = result.ret]
    /\ UNCHANGED <<pc, clock, locals, issued, last, environ, world, upstream,
                   files, stats_snapshots, mail, runs, history, fetch>>

----------------------------------------------------------------------------
(* update_jobs.py: fetching the board *)

JOBS_PER_PAGE == 10
MAX_PAGES == 20
FETCH_RETRIES == 2
MaxFeedPages == 1   \* feed pages whose response the model chooses

None == [none |-> TRUE]
Range(s) == {s[k] : k \in DOMAIN s}
Min(a, b) == IF a < b THEN a ELSE b

\* The entries the board serves as page number page.
PageEntries(board, page) ==
    SubSeq(board, (page - 1) * JOBS_PER_PAGE + 1,
           Min(page * JOBS_PER_PAGE, Len(board)))

\* fetch_rss_page: None once every attempt has failed ("down"); a body that
\* is no feed ("garbage") is parsed by feedparser into a feed without entries.
FetchRssPage(board, page, response) ==
    IF response = "down" THEN None
    ELSE IF response = "garbage" THEN [none |-> FALSE, entries |-> <<>>]
    ELSE [none |-> FALSE, entries |-> PageEntries(board, page)]

\* The dict parse_job_board builds from a feed entry (company, link and the
\* publication date are carried like position and are left out).
JobOfEntry(entry) ==
    [id |-> entry.guid, position |-> entry.title,
     _description_html |-> entry.summary]

RECURSIVE ParsePages(_, _, _, _)
ParsePages(board, responses, page, jobs) ==
    IF page > MAX_PAGES THEN jobs
    ELSE LET response == IF page \in DOMAIN responses
                         THEN responses[page] ELSE "ok"
             feed == FetchRssPage(board, page, response)
             page_jobs == [k \in DOMAIN feed.entries |->
                              JobOfEntry(feed.entries[k])]
         IN  IF feed.none \/ feed.entries = <<>> THEN jobs
             ELSE IF Len(page_jobs) < JOBS_PER_PAGE THEN jobs \o page_jobs
             ELSE ParsePages(board, responses, page + 1, jobs \o page_jobs)

\* parse_job_board
ParseJobBoard(board, responses) == ParsePages(board, responses, 1, <<>>)

\* What one urlopen(...) / feedparser.parse(response.read()) ends in: a
\* feed, a body that is no feed, or an exception (a timeout, a response
\* that is not 2xx).
AttemptOutcomes ==
    IF world.feed = "up" THEN {"ok"}
    ELSE IF world.feed = "slow" THEN {"ok", "timeout"}
    ELSE {"ok", "garbage", "timeout", "http_error"}

\* fetch_rss_page with the sleep taken after every failed attempt, the last
\* one included
RECURSIVE TryFetchSleepsAfterLast(_, _, _)
TryFetchSleepsAfterLast(outcomes, attempt, slept) ==
    IF attempt > FETCH_RETRIES + 1
    THEN [response |-> "down", made |-> attempt - 1, slept |-> slept]
    ELSE IF outcomes[attempt] \in {"ok", "garbage"}
    THEN [response |-> outcomes[attempt], made |-> attempt, slept |-> slept]
    ELSE TryFetchSleepsAfterLast(outcomes, attempt + 1, slept + 1)

\* fetch_rss_page, attempt by attempt.  outcomes[k] is what the k-th request
\* of this call would end in.  The result says what came back ("down" for
\* None), how many requests were made and how often the call slept.
RECURSIVE TryFetch(_, _, _)
TryFetch(outcomes, attempt, slept) ==
    IF attempt > FETCH_RETRIES + 1
    THEN [response |-> "down", made |-> attempt - 1, slept |-> slept]
    ELSE IF outcomes[attempt] \in {"ok", "garbage"}
    THEN [response |-> outcomes[attempt], made |-> attempt, slept |-> slept]
    ELSE IF attempt <= FETCH_RETRIES
    THEN TryFetch(outcomes, attempt + 1, slept + 1)
    ELSE TryFetch(outcomes, attempt + 1, slept)

\* One call of fetch_rss_page: the requests it made, with what each ended
\* in, and what it returned.
FetchCall(outcomes) ==
    LET result == TryFetch(outcomes, 1, 0)
    IN  [outcomes |-> SubSeq(outcomes, 1, result.made), made |-> result.made,
         slept |-> result.slept, response |-> result.response]

\* the loop without its ceiling: while True
MayRequestAny(page) == TRUE

\* while page <= MAX_PAGES
MayRequest(page) == page <= MAX_PAGES

\* a break that gives up the pages collected so far
OnBreakDiscard(jobs) == <<>>

\* jobs after the break on a page that failed or came back empty
OnBreak(jobs) == jobs

\* parse_job_board: jobs = [], page = 1
ParseBegin ==
    /\ pc = "fetch"
    /\ fetch.phase \in {"none", "returned"}
    /\ fetch' = [phase |-> "loop", page |-> 1, jobs |-> <<>>,
                 requested |-> <<>>, served |-> <<>>, attempts |-> 0,
                 failed_page |-> 0, posted |-> FALSE, call |-> [made |-> 0]]
    /\ UNCHANGED <<pc, clock, locals, store, environ, world, upstream, files,
                   stats_snapshots, mail, runs, history, race>>

\* parse_job_board: one turn of the loop, fetch_rss_page(page) included
ParsePage ==
    /\ pc = "fetch"
    /\ fetch.phase = "loop"
    /\ MayRequest(fetch.page)
    /\ \E call \in {FetchCall(outcomes) :
                        outcomes \in [1..(FETCH_RETRIES + 2) -> AttemptOutcomes]} :
          LET feed == FetchRssPage(upstream, fetch.page, call.response)
              page_jobs == [k \in DOMAIN feed.entries |->
                               JobOfEntry(feed.entries[k])]
              broke == feed.none \/ feed.entries = <<>>
              short == Len(page_jobs) < JOBS_PER_PAGE
          IN  fetch' = [fetch EXCEPT
                 !.phase = IF broke \/ short THEN "break" ELSE "loop",
                 !.page = IF broke \/ short THEN @ ELSE @ + 1,
                 !.jobs = IF broke THEN OnBreak(@) ELSE @ \o page_jobs,
                 !.requested = Append(@, fetch.page),
                 !.served = IF broke THEN @ ELSE Append(@, feed.entries),
                 !.attempts = @ + call.made,
                 !.failed_page = IF feed.none THEN fetch.page ELSE 0,
                 !.call = call]
    /\ UNCHANGED <<pc, clock, locals, store, environ, world, upstream, files,
                   stats_snapshots, mail, runs, history, race>>

\* parse_job_board: return jobs; main(): current_jobs = ...
ParseReturn ==
    /\ pc = "fetch"
    /\ \/ fetch.phase = "break"
       \/ fetch.phase = "loop" /\ ~MayRequest(fetch.page)
    /\ current_jobs' = fetch.jobs
    /\ fetch' = [fetch EXCEPT !.phase = "returned"]
    /\ pc' = "load"
    /\ UNCHANGED <<clock, existing_jobs, new_jobs, store, environ, world, upstream,
                   files, stats_snapshots, mail, runs, history, race>>

\* A listing is posted at the head of the feed while the pages of one run
\* are being requested: every listing moves down one place.
ListingPosted ==
    /\ pc = "fetch"
    /\ fetch.phase = "loop"
    /\ fetch.requested # <<>>
    /\ ~fetch.posted
    /\ upstream' = <<[guid |-> Len(upstream) + 1, title |-> "Senior Engineer",
                      summary |-> "<p>text</p>"]>> \o upstream
    /\ fetch' = [fetch EXCEPT !.posted = TRUE]
    /\ UNCHANGED <<pc, clock, locals, store, environ, world, files,
                   stats_snapshots, mail, runs, history, race>>

----------------------------------------------------------------------------
(* update_jobs.py: enrichment *)

NoBadges == "None"

\* The texts json.loads accepts: the badge objects, a list, null.
JsonTexts == ProviderAnswers \cup {"json_list", "json_null"}

\* json.loads(raw): None for null, the value otherwise
JsonLoads(raw) == IF raw = "json_null" THEN NoBadges ELSE raw

\* A faulty variant: text that is no JSON is returned as it came.
ExtractBadgesKeepsText(job, answer) ==
    IF ~environ.ANTHROPIC_API_KEY THEN NoBadges
    ELSE IF ~HasKey(job, "_description_html") \/ job._description_html = ""
         THEN NoBadges
    ELSE IF answer = "error" THEN NoBadges
    ELSE IF answer \in JsonTexts THEN JsonLoads(answer)
    ELSE answer

\* extract_badges: answer is what the provider returns for this call
\* ("error" when the request raises).
ExtractBadges(job, answer) ==
    IF ~environ.ANTHROPIC_API_KEY THEN NoBadges
    ELSE IF ~HasKey(job, "_description_html") \/ job._description_html = ""
         THEN NoBadges
    ELSE IF answer = "error" THEN NoBadges
    ELSE IF answer \in JsonTexts THEN JsonLoads(answer)
    ELSE NoBadges

\* A faulty variant: the warning is logged at every call.
WarnKeyAlways(log) ==
    IF environ.ANTHROPIC_API_KEY THEN log
    ELSE [log EXCEPT !.key_warned = TRUE, !.warnings = @ + 1]

\* extract_badges: the warning of a missing key, behind _anthropic_key_warned
WarnKey(log) ==
    IF environ.ANTHROPIC_API_KEY \/ log.key_warned THEN log
    ELSE [log EXCEPT !.key_warned = TRUE, !.warnings = @ + 1]

\* n calls of extract_badges, one after the other
RECURSIVE WarnKeyTimes(_, _)
WarnKeyTimes(log, n) == IF n = 0 THEN log ELSE WarnKeyTimes(WarnKey(log), n - 1)

Tag(job, answer) ==
    LET badges == ExtractBadges(job, answer)
    IN  IF badges # NoBadges THEN SetKey(job, "badges", badges) ELSE job

\* The new jobs main() calls extract_badges for.
EnrichCalled(current, new_refs) ==
    {n \in Range(new_refs) : ~HasKey(current[n], "badges")}

\* A faulty variant: there is no second pass.
BackfillCalledNever(current) == {}

\* The jobs of the list untagged.
BackfillCalled(current) ==
    {n \in DOMAIN current : /\ ~HasKey(current[n], "badges")
                            /\ HasKey(current[n], "_description_html")
                            /\ current[n]._description_html # ""}

\* main(), "Extract badges for new jobs"
EnrichNew(current, new_refs, answers) ==
    [i \in DOMAIN current |->
        IF i \in EnrichCalled(current, new_refs)
        THEN Tag(current[i], answers[i]) ELSE current[i]]

\* A faulty variant: every job with a description is tagged again.
BackfillAll(current, answers) ==
    [i \in DOMAIN current |->
        IF /\ HasKey(current[i], "_description_html")
           /\ current[i]._description_html # ""
        THEN Tag(current[i], answers[i]) ELSE current[i]]

\* main(), "Backfill badges for existing jobs that don't have them yet"
Backfill(current, answers) ==
    [i \in DOMAIN current |->
        IF i \in BackfillCalled(current)
        THEN Tag(current[i], answers[i]) ELSE current[i]]

\* extract_badges gets as far as the request to the provider
ReachesProvider(job) ==
    /\ environ.ANTHROPIC_API_KEY
    /\ HasKey(job, "_description_html")
    /\ job._description_html # ""

\* What the run knows of its calls of extract_badges after those for the
\* jobs called: the ids asked, what the provider answered, the warnings.
Asked(log, current, called, answers) ==
    LET reached == {n \in called : ReachesProvider(current[n])}
        warned == WarnKeyTimes(log, Cardinality(called))
    IN  [warned EXCEPT
            !.asked = @ \cup {current[n].id : n \in reached},
            !.answers = @ \cup {<<current[n].id, answers[n]>> : n \in reached}]

----------------------------------------------------------------------------
(* update_jobs.py: send_email *)

\* The position titles of the model, letter by letter.
TitleChars(title) ==
    CASE title = "Software Intern" ->
            <<"S", "o", "f", "t", "w", "a", "r", "e", " ", "I", "n", "t", "e", "r", "n">>
      [] title = "Senior Engineer" ->
            <<"S", "e", "n", "i", "o", "r", " ", "E", "n", "g", "i", "n", "e", "e", "r">>
      [] title = "SUMMER INTERNSHIP" ->
            <<"S", "U", "M", "M", "E", "R", " ", "I", "N", "T", "E", "R", "N", "S", "H", "I", "P">>
      [] title = "Internal Audit" ->
            <<"I", "n", "t", "e", "r", "n", "a", "l", " ", "A", "u", "d", "i", "t">>
      [] OTHER -> <<>>

\* str.lower() on one letter
LowerChar(ch) ==
    CASE ch = "A" -> "a" [] ch = "E" -> "e" [] ch = "H" -> "h" [] ch = "I" -> "i"
      [] ch = "M" -> "m" [] ch = "N" -> "n" [] ch = "P" -> "p" [] ch = "R" -> "r"
      [] ch = "S" -> "s" [] ch = "T" -> "t" [] ch = "U" -> "u" [] OTHER -> ch

Lower(chars) == [k \in DOMAIN chars |-> LowerChar(chars[k])]

\* needle in haystack, for Python strings
Contains(haystack, needle) ==
    \E at \in 0..(Len(haystack) - Len(needle)) :
        \A k \in DOMAIN needle : haystack[at + k] = needle[k]

\* A faulty variant: the title is searched as it is written.
IsInternshipCaseSensitive(job) ==
    Contains(TitleChars(job.position), <<"i", "n", "t", "e", "r", "n">>)

\* is_internship: "intern" in job.get("position", "").lower()
IsInternship(job) ==
    Contains(Lower(TitleChars(job.position)), <<"i", "n", "t", "e", "r", "n">>)

\* filter_jobs_by_preference
FilterJobsByPreference(jobs, preference) ==
    IF preference = "both" THEN jobs
    ELSE IF preference = "internship" THEN SelectSeq(jobs, IsInternship)
    ELSE IF preference = "fulltime"
         THEN SelectSeq(jobs, LAMBDA j : ~IsInternship(j))
    ELSE jobs

Listed(jobs) == [k \in DOMAIN jobs |-> [id |-> jobs[k].id,
                                        position |-> jobs[k].position]]

\* badge_html: badges.get(...) raises for a value that is no dict
BadgeHtmlRaises(job) ==
    HasKey(job, "badges") /\ job.badges \notin ProviderAnswers \cup BadgeSets

\* build_html returns for these jobs
Renders(jobs) == \A k \in DOMAIN jobs : ~BadgeHtmlRaises(jobs[k])

\* The messages send_email hands to the SMTP session, in order: one per
\* admin recipient, then one per subscriber that is not skipped.
Messages(jobs, admin_recipients, subs) ==
    LET kept == SelectSeq(subs, LAMBDA sub :
                    /\ sub.email \notin Range(admin_recipients)
                    /\ FilterJobsByPreference(jobs, sub.preference) # <<>>)
    IN  [k \in DOMAIN admin_recipients |->
            [to |-> admin_recipients[k], class |-> "admin",
             jobs |-> Listed(jobs), unsubscribe |-> NoToken,
             renders |-> Renders(jobs)]]
        \o
        [k \in DOMAIN kept |->
            [to |-> kept[k].email, class |-> "subscriber",
             jobs |-> Listed(FilterJobsByPreference(jobs, kept[k].preference)),
             unsubscribe |-> IF environ.APP_URL
                             THEN kept[k].unsubscribe_token ELSE NoToken,
             renders |->
                Renders(FilterJobsByPreference(jobs, kept[k].preference))]]

\* How many of the planned messages build_html returns for before it
\* raises inside the session.
Rendered(planned) ==
    IF \A k \in DOMAIN planned : planned[k].renders THEN Len(planned)
    ELSE (CHOOSE k \in DOMAIN planned :
            /\ ~planned[k].renders
            /\ \A m \in 1..(k - 1) : planned[m].renders) - 1

\* A faulty variant: the failure is caught inside the loop, which goes on
\* with the next recipient.
SentSkipping(planned, n_ok) ==
    IF n_ok < Len(planned)
    THEN SubSeq(planned, 1, n_ok) \o SubSeq(planned, n_ok + 2, Len(planned))
    ELSE planned

\* The messages that went out of a session whose transport carried n_ok
\* messages: the exception of the next send_message leaves both loops.
Sent(planned, n_ok) == SubSeq(planned, 1, n_ok)

\* Every order in which the rows of a SELECT can come back.
Orders(S) ==
    {s \in [1..Cardinality(S) -> S] : \A a, b \in DOMAIN s : s[a] = s[b] => a = b}

\* How often the messages of sent list job id for address to.
Hits(sent, to, id) ==
    Cardinality({x \in UNION {{<<k, m>> : m \in DOMAIN sent[k].jobs} :
                                  k \in DOMAIN sent} :
                    sent[x[1]].to = to /\ sent[x[1]].jobs[x[2]].id = id})

\* The <<address, job id>> pairs the messages of sent carry.
Pairs(sent) ==
    UNION {{<<sent[k].to, sent[k].jobs[m].id>> : m \in DOMAIN sent[k].jobs} :
              k \in DOMAIN sent}

Record(log, sent) ==
    LET pairs == DOMAIN log \cup
                 UNION {{<<sent[k].to, sent[k].jobs[m].id>> :
                            m \in DOMAIN sent[k].jobs} : k \in DOMAIN sent}
    IN  [p \in pairs |-> (IF p \in DOMAIN log THEN log[p] ELSE 0)
                            + Hits(sent, p[1], p[2])]

----------------------------------------------------------------------------
(* database.py: the ledger *)

\* record_stats_snapshot
\* A faulty variant: the INSERT of a call that fails stays in the table.
RecordStatsSnapshotKeepsInsert(tbl, jobs_on_board, new_jobs_found, active_subscribers, db_ok) ==
    LET total_jobs_ever ==
            IF tbl # <<>> THEN tbl[Len(tbl)].total_jobs_ever + new_jobs_found
            ELSE jobs_on_board
    IN  [tbl |-> Append(tbl, [jobs_on_board |-> jobs_on_board,
                              new_jobs_found |-> new_jobs_found,
                              active_subscribers |-> active_subscribers,
                              total_jobs_ever |-> total_jobs_ever]),
         ret |-> db_ok]

RecordStatsSnapshot(tbl, jobs_on_board, new_jobs_found, active_subscribers, db_ok) ==
    LET total_jobs_ever ==
            IF tbl # <<>> THEN tbl[Len(tbl)].total_jobs_ever + new_jobs_found
            ELSE jobs_on_board
    IN  IF ~db_ok THEN [tbl |-> tbl, ret |-> FALSE]
        ELSE [tbl |-> Append(tbl, [jobs_on_board |-> jobs_on_board,
                                   new_jobs_found |-> new_jobs_found,
                                   active_subscribers |-> active_subscribers,
                                   total_jobs_ever |-> total_jobs_ever]),
              ret |-> TRUE]

----------------------------------------------------------------------------
(* Inputs of the diff *)

\* What parse_job_board builds from one feed entry.
FetchedJobs ==
    [id : JobIds, position : Positions, _description_html : {"<p>text</p>"}]

\* What an earlier run saved: the description stripped, the discovery date
\* set, the badges present or not.
SavedJobs ==
    LET dated == [id : JobIds, position : Positions, discovered_date : 0..1]
    IN  dated \cup {SetKey(j, "badges", b) : j \in dated, b \in BadgeSets}

\* main(): init_db().  An error of init_db is not caught: the run ends there.
RunStart ==
    /\ pc \in {"idle", "crashed"}
    /\ runs < MaxRuns
    /\ runs' = runs + 1
    /\ \E db_ok \in DbOutcomes :
        /\ subscribers' = IF db_ok THEN InitDb(subscribers, clock)
                          ELSE subscribers
        /\ pc' = IF db_ok THEN "fetch" ELSE "crashed"
        /\ last' = [op |-> "init_db", called |-> TRUE, by |-> "main",
                    db_ok |-> db_ok]
    /\ UNCHANGED <<clock, locals, issued, environ, world, upstream, files,
                   stats_snapshots, mail, history, race, fetch>>

\* main(): current_jobs = parse_job_board()
FetchStep ==
    /\ pc = "fetch"
    /\ \E responses \in [1..MaxFeedPages -> FeedOutcomes] :
        current_jobs' = ParseJobBoard(upstream, responses)
    /\ pc' = "load"
    /\ UNCHANGED <<clock, existing_jobs, new_jobs, store, environ, world, upstream,
                   files, stats_snapshots, mail, runs, history, race, fetch>>

\* main(): existing_jobs = load_existing_jobs().  A snapshot that was never
\* written reads as the empty list; one that is there is parsed by
\* json.load, which raises on a file that is not JSON, and main() catches
\* nothing: the process ends there.
LoadStep ==
    /\ pc = "load"
    /\ \E read_ok \in IF jobs_file = <<>> THEN {TRUE} ELSE DiskOutcomes :
          /\ existing_jobs' = IF read_ok THEN jobs_file ELSE existing_jobs
          /\ pc' = IF read_ok THEN "merge" ELSE "crashed"
    /\ UNCHANGED <<clock, current_jobs, new_jobs, store, environ, world, upstream,
                   files, stats_snapshots, mail, runs, history, race, fetch>>

MergeStep ==
    /\ pc = "merge"
    /\ current_jobs' = PreserveMetadata(current_jobs, existing_jobs, clock)
    /\ pc' = "diff"
    /\ UNCHANGED <<clock, existing_jobs, new_jobs, store, environ, world, upstream,
                   files, stats_snapshots, mail, runs, history, race, fetch>>

DiffStep ==
    /\ pc = "diff"
    /\ new_jobs' = FindNewJobs(current_jobs, existing_jobs)
    /\ pc' = "enrich"
    /\ UNCHANGED <<clock, current_jobs, existing_jobs, store, environ, world,
                   upstream, files, stats_snapshots, mail, runs, history, race, fetch>>

\* main(): the loop over new_jobs calling extract_badges
EnrichStep ==
    /\ pc = "enrich"
    /\ \E answers \in [DOMAIN current_jobs -> ProviderOutcomes] :
        /\ current_jobs' = EnrichNew(current_jobs, new_jobs, answers)
        /\ history' = Asked(history, current_jobs,
                            EnrichCalled(current_jobs, new_jobs), answers)
    /\ pc' = "backfill"
    /\ UNCHANGED <<clock, existing_jobs, new_jobs, store, environ, world, upstream,
                   files, stats_snapshots, mail, runs, race, fetch>>

\* main(): the loop over untagged calling extract_badges
BackfillStep ==
    /\ pc = "backfill"
    /\ \E answers \in [DOMAIN current_jobs -> ProviderOutcomes] :
        /\ current_jobs' = Backfill(current_jobs, answers)
        /\ history' = Asked(history, current_jobs,
                            BackfillCalled(current_jobs), answers)
    /\ pc' = "notify"
    /\ UNCHANGED <<clock, existing_jobs, new_jobs, store, environ, world, upstream,
                   files, stats_snapshots, mail, runs, race, fetch>>

\* main(): send_email(new_jobs) when there are new jobs.  The session accepts
\* the first n_ok messages; an error of the session ends the sending.
NotifyStep ==
    /\ pc = "notify"
    /\ IF new_jobs = <<>> \/ ~HasMailCredentials
       THEN UNCHANGED <<mail, history>>
       ELSE \E db_ok \in DbOutcomes :
            \E subs \in Orders(GetActiveSubscribers(subscribers, db_ok)) :
               LET admin_recipients == environ.EMAIL_RECIPIENTS
                   planned == IF admin_recipients = <<>> /\ subs = <<>>
                              THEN <<>>
                              ELSE Messages(Deref(current_jobs, new_jobs),
                                            admin_recipients, subs)
               IN  \E n_ok \in {Min(n, Rendered(planned)) :
                                    n \in SmtpOutcomes(Len(planned))} :
                      /\ db_subscribers' = subs
                      /\ outbox' = Sent(planned, n_ok)
                      /\ delivered' = Record(delivered, Sent(planned, n_ok))
                      /\ history' = [history EXCEPT
                            !.failed = n_ok < Len(planned),
                            !.owed = (@ \ Pairs(Sent(planned, n_ok)))
                                        \cup (Pairs(planned)
                                               \ Pairs(Sent(planned, n_ok)))]
    /\ pc' = "write_new"
    /\ UNCHANGED <<clock, locals, store, environ, world, upstream, files,
                   stats_snapshots, runs, race, fetch>>

\* main(): new_jobs.json is written, or touched when there is no new job
WriteNewStep ==
    /\ pc = "write_new"
    /\ new_jobs_file' =
          IF new_jobs # <<>>
          THEN [k \in DOMAIN new_jobs |->
                   PopKey(current_jobs[new_jobs[k]], "_description_html")]
          ELSE new_jobs_file
    /\ pc' = "save"
    /\ UNCHANGED <<clock, locals, store, environ, world, upstream, jobs_file,
                   readme_file, stats_snapshots, mail, runs, history, race, fetch>>

\* main(): the description is stripped, update_readme, save_jobs (the order
\* of the table rows, by publication date, is not modelled)
SaveStep ==
    /\ pc = "save"
    /\ current_jobs' = [i \in DOMAIN current_jobs |->
                           PopKey(current_jobs[i], "_description_html")]
    /\ readme_file' = [i \in DOMAIN current_jobs |-> current_jobs[i].id]
    /\ jobs_file' = current_jobs'
    /\ pc' = "stats"
    /\ UNCHANGED <<clock, existing_jobs, new_jobs, store, environ, world, upstream,
                   new_jobs_file, stats_snapshots, mail, runs, history, race, fetch>>

\* main(): record_stats_snapshot(...), then the process ends
StatsStep ==
    /\ pc = "stats"
    /\ \E read_ok, write_ok \in DbOutcomes :
        LET subscriber_count ==
                Cardinality(GetActiveSubscribers(subscribers, read_ok))
        IN  /\ stats_snapshots' =
                  RecordStatsSnapshot(stats_snapshots, Len(current_jobs),
                                      Len(new_jobs), subscriber_count,
                                      write_ok).tbl
            /\ history' = [history EXCEPT
                  !.failed = FALSE,
                  !.asked = {},
                  !.answers = {},
                  !.key_warned = FALSE,
                  !.warnings = 0,
                  !.found = IF stats_snapshots # <<>> THEN @ + Len(new_jobs)
                            ELSE 0]
    /\ pc' = "idle"
    /\ current_jobs' = <<>>
    /\ existing_jobs' = <<>>
    /\ new_jobs' = <<>>
    /\ db_subscribers' = <<>>
    /\ outbox' = <<>>
    /\ UNCHANGED <<clock, store, environ, world, upstream, files, delivered, runs,
                   race, fetch>>

----------------------------------------------------------------------------
(* The job board *)

MaxBoard == 2       \* listings on the board at one time

FeedEntries ==
    {[guid |-> "j1", title |-> "Software Intern", summary |-> "<p>text</p>"],
     [guid |-> "j1", title |-> "Senior Engineer", summary |-> "<p>text</p>"],
     [guid |-> "j2", title |-> "Senior Engineer", summary |-> ""]}

Boards ==
    {b \in SeqsUpTo(FeedEntries, MaxBoard) :
        \A m, n \in DOMAIN b : b[m].guid = b[n].guid => m = n}

\* Listings are posted, edited and taken down.  The board is read by
\* FetchStep alone, so changing it between runs loses no behaviour.
UpstreamChange ==
    /\ pc \in {"idle", "crashed"}
    /\ upstream' \in Boards \ {upstream}
    /\ UNCHANGED <<pc, clock, locals, store, environ, world, files, stats_snapshots,
                   mail, runs, history, race, fetch>>

----------------------------------------------------------------------------
(* Specifications *)

DefaultEnviron ==
    [EMAIL_SENDER |-> TRUE, EMAIL_PASSWORD |-> TRUE,
     EMAIL_RECIPIENTS |-> <<"admin@x.org">>, APP_URL |-> TRUE,
     ANTHROPIC_API_KEY |-> TRUE, ADMIN_KEY |-> TRUE]

Quiet ==
    /\ pc = "idle"
    /\ clock = 0
    /\ current_jobs = <<>>
    /\ existing_jobs = <<>>
    /\ new_jobs = <<>>
    /\ last = NoCall
    /\ jobs_file = <<>>
    /\ new_jobs_file = <<>>
    /\ readme_file = <<>>
    /\ stats_snapshots = <<>>
    /\ db_subscribers = <<>>
    /\ outbox = <<>>
    /\ delivered = <<>>
    /\ history = NoHistory
    /\ fetch = NoFetch
    /\ race = NoRace

Pipeline ==
    \/ RunStart \/ FetchStep \/ LoadStep \/ MergeStep \/ DiffStep
    \/ EnrichStep \/ BackfillStep \/ NotifyStep \/ WriteNewStep
    \/ SaveStep \/ StatsStep

Web == SubscribeRejected \/ Subscribe \/ Confirm \/ Unsubscribe \/ AdminRemoveSubscriber \/ AppStartup

\* The store under the web handlers alone, empty at first, on a database
\* whose calls can fail.
InitStore ==
    /\ Quiet
    /\ runs = 0
    /\ subscribers = {}
    /\ issued = 0
    /\ environ = [DefaultEnviron EXCEPT !.ANTHROPIC_API_KEY = FALSE]
    /\ world = [Healthy EXCEPT !.db = "flaky"]
    /\ upstream = <<>>

NextStore == Web \/ Tick

SpecStore == InitStore /\ [][NextStore]_vars

\* A store two visitors have left behind: a@x.org subscribed and confirmed,
\* b@x.org subscribed and did not confirm.
SeededStore ==
    {[email |-> "a@x.org", unsubscribe_token |-> 101,
      preference |-> "internship", active |-> TRUE, confirmed |-> TRUE,
      subscribed_at |-> 0],
     [email |-> "b@x.org", unsubscribe_token |-> 102, preference |-> "both",
      active |-> TRUE, confirmed |-> FALSE, subscribed_at |-> 0]}

OneListing ==
    <<[guid |-> "j1", title |-> "Software Intern", summary |-> "<p>text</p>"]>>

\* The handlers and the pipeline together, every service up, one listing on
\* the board, which the one run that is left finds new.
InitService ==
    /\ Quiet
    /\ runs = MaxRuns - 1
    /\ subscribers = SeededStore
    /\ issued = 0
    /\ environ = [DefaultEnviron EXCEPT !.ANTHROPIC_API_KEY = FALSE]
    /\ world = Healthy
    /\ upstream = OneListing

NextService == Web \/ Tick \/ Pipeline

SpecService == InitService /\ [][NextService]_vars

\* The pipeline, run after run, on a board that changes, with a feed and a
\* mail transport that can fail.
Init ==
    /\ Quiet
    /\ runs = 0
    /\ subscribers = SeededStore
    /\ issued = 0
    /\ environ = DefaultEnviron
    /\ world = [Healthy EXCEPT !.feed = "flaky", !.smtp = "flaky"]
    /\ upstream = OneListing

Next == Pipeline \/ UpstreamChange \/ Tick

Spec == Init /\ [][Next]_vars

\* The pipeline, run after run, on a board that changes and a database whose
\* calls can fail.
InitLedger ==
    /\ Quiet
    /\ runs = 0
    /\ subscribers = SeededStore
    /\ issued = 0
    /\ environ = [DefaultEnviron EXCEPT !.ANTHROPIC_API_KEY = FALSE]
    /\ world = [Healthy EXCEPT !.db = "flaky"]
    /\ upstream = OneListing

NextLedger == Pipeline \/ UpstreamChange

SpecLedger == InitLedger /\ [][NextLedger]_vars

\* The pipeline, run after run, on a board that changes while time passes,
\* with a provider whose answers differ from call to call and no mail
\* credentials.
InitEnrich ==
    /\ Quiet
    /\ runs = 0
    /\ subscribers = SeededStore
    /\ issued = 0
    /\ environ = [DefaultEnviron EXCEPT !.EMAIL_SENDER = FALSE]
    /\ world = [Healthy EXCEPT !.provider = "flaky"]
    /\ upstream = OneListing

NextEnrich == Pipeline \/ UpstreamChange \/ Tick

SpecEnrich == InitEnrich /\ [][NextEnrich]_vars

\* The pipeline, run after run, on a board that changes, with or without
\* the provider's key, and a provider that answers with badges, with text
\* that is no JSON, with JSON that is no object, or not at all.
InitProvider ==
    /\ Quiet
    /\ runs = 0
    /\ subscribers = SeededStore
    /\ issued = 0
    /\ \E key \in BOOLEAN :
          environ = [DefaultEnviron EXCEPT !.ANTHROPIC_API_KEY = key]
    /\ world = [Healthy EXCEPT !.provider = "wild"]
    /\ upstream = OneListing

NextProvider == Pipeline \/ UpstreamChange

SpecProvider == InitProvider /\ [][NextProvider]_vars

\* The pipeline, run after run, on a board that changes, in a working
\* directory whose jobs.json can be unreadable or hold no JSON.
InitDisk ==
    /\ Quiet
    /\ runs = 0
    /\ subscribers = SeededStore
    /\ issued = 0
    /\ environ = DefaultEnviron
    /\ world = [Healthy EXCEPT !.disk = "flaky"]
    /\ upstream = OneListing

NextDisk == Pipeline \/ UpstreamChange

SpecDisk == InitDisk /\ [][NextDisk]_vars

\* The pipeline, run after run, on a board that changes, with the sender,
\* the password, both or none of them in the environment, over a mail
\* transport that can fail.
InitMail ==
    /\ Quiet
    /\ runs = 0
    /\ subscribers = SeededStore
    /\ issued = 0
    /\ \E sender, password \in BOOLEAN :
          environ = [DefaultEnviron EXCEPT !.EMAIL_SENDER = sender,
                                           !.EMAIL_PASSWORD = password]
    /\ world = [Healthy EXCEPT !.smtp = "flaky"]
    /\ upstream = OneListing

NextMail == Pipeline \/ UpstreamChange

SpecMail == InitMail /\ [][NextMail]_vars

\* The page loop of one run alone, on a feed whose every request can
\* fail in every way: boards of less than a page, of one page, of more than
\* a page and of more pages than parse_job_board asks for.  A guid is the
\* place the listing had on the board at first.
FetchBoard(n) ==
    [k \in 1..n |-> [guid |-> k,
                     title |-> IF k % 2 = 1 THEN "Software Intern"
                               ELSE "Senior Engineer",
                     summary |-> "<p>text</p>"]]

FetchBoards ==
    {FetchBoard(n) : n \in {0, 3, JOBS_PER_PAGE, JOBS_PER_PAGE + 2,
                            2 * JOBS_PER_PAGE, MAX_PAGES * JOBS_PER_PAGE + 5}}

InitFetch ==
    /\ Quiet
    /\ runs = MaxRuns - 1
    /\ subscribers = SeededStore
    /\ issued = 0
    /\ environ = [DefaultEnviron EXCEPT !.ANTHROPIC_API_KEY = FALSE]
    /\ world = [Healthy EXCEPT !.feed = "flaky"]
    /\ upstream \in FetchBoards

NextFetch == RunStart \/ ParseBegin \/ ParsePage \/ ParseReturn

SpecFetch == InitFetch /\ [][NextFetch]_vars

\* One whole run that requests the board page by page, on boards of up to
\* three pages, from a feed whose requests can time out, while a listing
\* can be posted between two page requests.
PagedBoards == {FetchBoard(n) : n \in {3, JOBS_PER_PAGE + 2, 2 * JOBS_PER_PAGE + 2}}

InitPaged ==
    /\ Quiet
    /\ runs = MaxRuns - 1
    /\ subscribers = SeededStore
    /\ issued = 0
    /\ environ = [DefaultEnviron EXCEPT !.ANTHROPIC_API_KEY = FALSE]
    /\ world = [Healthy EXCEPT !.feed = "slow"]
    /\ upstream \in PagedBoards

NextPaged ==
    \/ RunStart \/ ParseBegin \/ ParsePage \/ ParseReturn \/ ListingPosted
    \/ LoadStep \/ MergeStep \/ DiffStep \/ EnrichStep \/ BackfillStep
    \/ NotifyStep \/ WriteNewStep \/ SaveStep \/ StatsStep

SpecPaged == InitPaged /\ [][NextPaged]_vars

\* One dispatch after another on a board that stays, for every board, every
\* subscriber table and every admin list of a small family, over a mail
\* transport that can fail at any recipient.
DispatchBoards ==
    {b \in SeqsUpTo(
        [guid : {"j1"}, title : {"Software Intern", "SUMMER INTERNSHIP"},
         summary : {"<p>text</p>"}]
        \cup [guid : {"j2"}, title : {"Senior Engineer", "Internal Audit"},
              summary : {"<p>text</p>"}], MaxBoard) :
        \A m, n \in DOMAIN b : b[m].guid = b[n].guid => m = n}

DispatchTables ==
    {one \cup two \cup three :
        one \in {{[email |-> "a@x.org", unsubscribe_token |-> 101,
                   preference |-> p, active |-> TRUE, confirmed |-> TRUE,
                   subscribed_at |-> 0]} : p \in Preferences},
        two \in {{}} \cup
                {{[email |-> "b@x.org", unsubscribe_token |-> 102,
                   preference |-> "fulltime", active |-> TRUE, confirmed |-> c,
                   subscribed_at |-> 0]} : c \in BOOLEAN},
        three \in {{}, {[email |-> "admin@x.org", unsubscribe_token |-> 103,
                         preference |-> "both", active |-> TRUE,
                         confirmed |-> TRUE, subscribed_at |-> 0]}}}

\* EMAIL_RECIPIENTS, split at the commas
AdminLists ==
    {<<>>, <<"admin@x.org">>, <<"admin@x.org", "admin@x.org">>, <<"Admin@x.org">>}

InitDispatch ==
    /\ Quiet
    /\ runs = 0
    /\ subscribers \in DispatchTables
    /\ issued = 0
    /\ \E admin_recipients \in AdminLists :
          environ = [DefaultEnviron EXCEPT
                        !.ANTHROPIC_API_KEY = FALSE,
                        !.EMAIL_RECIPIENTS = admin_recipients]
    /\ world = [Healthy EXCEPT !.smtp = "flaky"]
    /\ upstream \in DispatchBoards

NextDispatch == Pipeline

SpecDispatch == InitDispatch /\ [][NextDispatch]_vars

\* Two calls on the row of one address, started together, on every table
\* they can find.
InitRace ==
    /\ pc = "idle"
    /\ clock = 0
    /\ current_jobs = <<>>
    /\ existing_jobs = <<>>
    /\ new_jobs = <<>>
    /\ last = NoCall
    /\ jobs_file = <<>>
    /\ new_jobs_file = <<>>
    /\ readme_file = <<>>
    /\ stats_snapshots = <<>>
    /\ db_subscribers = <<>>
    /\ outbox = <<>>
    /\ delivered = <<>>
    /\ history = NoHistory
    /\ fetch = NoFetch
    /\ runs = 0
    /\ subscribers \in RaceTables
    /\ issued = 2
    /\ environ = DefaultEnviron
    /\ world = Healthy
    /\ upstream = <<>>
    /\ \E c1, c2 \in RaceCalls :
          race = [phase |-> "run", start |-> subscribers,
                  calls |-> <<c1, c2>>, at |-> <<"ready", "ready">>,
                  seen |-> <<"-", "-">>, ret |-> <<NoCall, NoCall>>]

NextRace == \E i \in {1, 2} : RaceSelect(i) \/ RaceWrite(i) \/ RaceUpdate(i)

SpecRace == InitRace /\ [][NextRace]_vars

\* The merge and the diff of one run, on every fetched board and every
\* previous snapshot up to the bounds.
InitDiff ==
    /\ pc = "merge"
    /\ clock = MaxClock
    /\ current_jobs \in SeqsUpTo(FetchedJobs, MaxCur)
    /\ existing_jobs \in SeqsUpTo(SavedJobs, MaxPrev)
    /\ new_jobs = <<>>
    /\ subscribers = {}
    /\ issued = 0
    /\ last = NoCall
    /\ environ = DefaultEnviron
    /\ world = Healthy
    /\ upstream = <<>>
    /\ jobs_file = existing_jobs
    /\ new_jobs_file = <<>>
    /\ readme_file = <<>>
    /\ stats_snapshots = <<>>
    /\ db_subscribers = <<>>
    /\ outbox = <<>>
    /\ delivered = <<>>
    /\ runs = 1
    /\ history = NoHistory
    /\ fetch = NoFetch
    /\ race = NoRace

NextDiff == MergeStep \/ DiffStep

SpecDiff == InitDiff /\ [][NextDiff]_vars

----------------------------------------------------------------------------
(* Claims about the diff, checked under SpecDiff *)

IsNewIndex(i) ==
    \A k \in DOMAIN existing_jobs : existing_jobs[k].id # current_jobs[i].id

\* C1: find_new_jobs(current, previous) returns exactly the records of
\* current whose id does not occur in previous, in the order of current:
\* all of them when previous is empty, and never one whose id is in previous.
C1_FindNewExact ==
    pc = "enrich" =>
        /\ \A k \in 1..(Len(new_jobs) - 1) : new_jobs[k] < new_jobs[k + 1]
        /\ {new_jobs[k] : k \in DOMAIN new_jobs}
              = {i \in DOMAIN current_jobs : IsNewIndex(i)}
        /\ existing_jobs = <<>> => Deref(current_jobs, new_jobs) = current_jobs
        /\ \A k \in DOMAIN new_jobs :
              current_jobs[new_jobs[k]].id \notin Ids(existing_jobs)

C1_Witness ==
    /\ pc = "enrich"
    /\ Len(current_jobs) = 2
    /\ existing_jobs # <<>>
    /\ new_jobs = <<2>>

SameMeta(a, b) ==
    /\ HasKey(a, "discovered_date") <=> HasKey(b, "discovered_date")
    /\ HasKey(a, "discovered_date") => a.discovered_date = b.discovered_date
    /\ HasKey(a, "badges") <=> HasKey(b, "badges")
    /\ HasKey(a, "badges") => a.badges = b.badges

OtherFields(job) == PopKey(PopKey(job, "discovered_date"), "badges")

\* C3: the merge step gives every current record whose id is in the previous
\* snapshot the discovered_date and badges of a previous record of that id
\* and keeps its other fields as fetched; gives every other record the run
\* time as discovered_date; and merging the result again against the same
\* previous snapshot, at any time, leaves the carried values as they are.
C3_CarryForward ==
    [][(pc = "merge" /\ pc' = "diff") =>
        /\ Len(current_jobs') = Len(current_jobs)
        /\ \A i \in DOMAIN current_jobs :
              LET fetched == current_jobs[i]
                  merged == current_jobs'[i]
              IN  /\ OtherFields(merged) = fetched
                  /\ IF fetched.id \in Ids(existing_jobs)
                     THEN \E k \in DOMAIN existing_jobs :
                             /\ existing_jobs[k].id = fetched.id
                             /\ SameMeta(merged, existing_jobs[k])
                     ELSE /\ merged.discovered_date = clock
                          /\ ~HasKey(merged, "badges")
        /\ \A t \in 0..(MaxClock + 1) :
              LET again == PreserveMetadata(current_jobs', existing_jobs, t)
              IN  \A i \in DOMAIN current_jobs :
                     current_jobs[i].id \in Ids(existing_jobs)
                         => SameMeta(again[i], current_jobs'[i])
      ]_vars

C3_Witness ==
    /\ pc = "diff"
    /\ \E i, n \in DOMAIN current_jobs :
          /\ current_jobs[n].id \notin Ids(existing_jobs)
          /\ current_jobs[n].discovered_date = clock
          /\ \E k \in DOMAIN existing_jobs :
                /\ existing_jobs[k].id = current_jobs[i].id
                /\ existing_jobs[k].position # current_jobs[i].position
                /\ HasKey(current_jobs[i], "badges")
                /\ current_jobs[i].discovered_date < clock

----------------------------------------------------------------------------
(* Claims about the pipeline across runs, checked under Spec *)

\* C2: across any sequence of runs, with feed pages and the mail transport
\* failing or not, no address is mailed the same job id more than once.
C2_AtMostOnce == \A p \in DOMAIN delivered : delivered[p] <= 1

----------------------------------------------------------------------------
(* Claims about the store *)

Eligible(r) == r.active /\ r.confirmed
Pending(r) == r.active /\ ~r.confirmed

\* C4: after any sequence of add, confirm and remove calls the read returns
\* exactly the rows with active and confirmed set, so no inactive and no
\* pending row; the read of a dispatch returned such rows only, and every
\* subscriber message of the dispatch goes to an address of that read.
C4_EligibleRecipients ==
    /\ LET read == GetActiveSubscribers(subscribers, TRUE)
       IN  /\ \A r \in subscribers :
                Eligible(r) <=>
                    \E d \in read : /\ d.email = r.email
                                    /\ d.unsubscribe_token = r.unsubscribe_token
                                    /\ d.preference = r.preference
           /\ \A d \in read : \E r \in subscribers :
                r.email = d.email /\ r.active /\ r.confirmed
    /\ pc = "write_new" =>
          \A k \in DOMAIN db_subscribers : \E r \in subscribers :
              r.email = db_subscribers[k].email /\ r.active /\ r.confirmed
    /\ \A k \in DOMAIN outbox :
          outbox[k].class = "subscriber" =>
              \E n \in DOMAIN db_subscribers :
                  db_subscribers[n].email = outbox[k].to

C4_Witness ==
    /\ pc = "write_new"
    /\ \E k \in DOMAIN outbox : outbox[k].class = "subscriber"
    /\ \E r \in subscribers :
          /\ ~r.active /\ r.confirmed
          /\ \A k \in DOMAIN outbox : outbox[k].to # r.email

\* C5: the confirmed flag of a row goes from false to true only in a confirm
\* call made with the token the row holds, on a pending row; no subscribe,
\* unsubscribe, store initialisation or pipeline step does it.
C5_ConfirmOnlyByToken ==
    [][\A r \in subscribers : \A r2 \in subscribers' :
          (r.email = r2.email /\ ~r.confirmed /\ r2.confirmed) =>
              /\ last'.op = "confirm"
              /\ last'.called
              /\ last'.token = r.unsubscribe_token
              /\ r.active
      ]_vars

\* C6: a step of the pipeline leaves the rows of the table as they are.
C6_RunKeepsRows == [][pc' # pc => subscribers' = subscribers]_vars

\* C7: add on a pending row leaves one row for the address, returns
\* needs_confirm with a token that differs from the one the row held, and the
\* row holds the returned token and the preference passed.
C7_PendingReAdd ==
    [][(/\ issued' = issued + 1
        /\ last'.op = "subscribe" /\ last'.called /\ last'.db_ok
        /\ last'.was = "pending") =>
          \A old \in RowsOf(subscribers, last'.email) :
              /\ Cardinality(RowsOf(subscribers', last'.email)) = 1
              /\ HasKey(last'.ret, "needs_confirm") /\ last'.ret.needs_confirm
              /\ last'.ret.success
              /\ last'.ret.token # old.unsubscribe_token
              /\ \A r \in RowsOf(subscribers', last'.email) :
                    /\ r.unsubscribe_token = last'.ret.token
                    /\ r.preference = last'.preference
                    /\ Pending(r)
              /\ subscribers' \ RowsOf(subscribers', last'.email)
                    = subscribers \ {old}
      ]_vars

C7_Witness ==
    /\ last.op = "subscribe" /\ last.called /\ last.db_ok
    /\ last.was = "pending"
    /\ last.preference = "both"
    /\ \E r \in subscribers :
          /\ r.email = last.email
          /\ r.unsubscribe_token = last.ret.token
          /\ r.unsubscribe_token > 1
          /\ r.preference = "both"

\* C8: add on an active, confirmed row returns the successful "already
\* subscribed" result without token and without needs_confirm, sends no
\* confirmation mail and leaves the table as it is, whatever the preference.
C8_AlreadySubscribed ==
    [][(/\ issued' = issued + 1
        /\ last'.op = "subscribe" /\ last'.called /\ last'.db_ok
        /\ last'.was = "active") =>
          /\ last'.ret.success
          /\ last'.ret.message = "Already subscribed!"
          /\ ~HasKey(last'.ret, "token")
          /\ ~HasKey(last'.ret, "needs_confirm")
          /\ last'.mailed = NoToken
          /\ last'.status = 200
          /\ subscribers' = subscribers
      ]_vars

C8_Witness ==
    /\ last.op = "subscribe" /\ last.called /\ last.db_ok
    /\ last.was = "active"
    /\ \E r \in subscribers :
          r.email = last.email /\ Eligible(r) /\ r.preference # last.preference

\* C9: add on an inactive row leaves one row for the address, active, not
\* confirmed, with a new token, and returns needs_confirm; and from then on
\* the subscriber becomes an eligible recipient only by a confirm call made
\* with that new token.
C9_Resubscribe ==
    [][/\ (/\ issued' = issued + 1
           /\ last'.op = "subscribe" /\ last'.called /\ last'.db_ok
           /\ last'.was = "inactive") =>
             \A old \in RowsOf(subscribers, last'.email) :
                 /\ Cardinality(RowsOf(subscribers', last'.email)) = 1
                 /\ HasKey(last'.ret, "needs_confirm")
                 /\ \A r \in RowsOf(subscribers', last'.email) :
                       /\ Pending(r)
                       /\ r.unsubscribe_token = last'.ret.token
                       /\ r.unsubscribe_token # old.unsubscribe_token
       /\ (/\ last.op = "subscribe" /\ last.called /\ last.db_ok
           /\ last.was = "inactive"
           /\ \E r \in RowsOf(subscribers', last.email) : Eligible(r)) =>
             /\ last'.op = "confirm"
             /\ last'.called
             /\ last'.token = last.ret.token
      ]_vars

\* What the store answers for a token that no row holds.
NoSuchToken == RemoveSubscriber(subscribers, issued + 1, TRUE).ret

\* C10: remove on an active row clears active and keeps the token; a later
\* remove with the same token changes nothing in the table, and its outcome
\* differs from the outcome for a token that matches no row.
C10_RepeatUnsubscribe ==
    [][(last'.op = "unsubscribe" /\ last'.called /\ last'.db_ok) =>
          /\ last'.was \in {"active", "pending"} =>
                /\ last'.ret
                /\ \E r \in RowsWithToken(subscribers', last'.token) : ~r.active
          /\ last'.was = "inactive" =>
                /\ subscribers' = subscribers
                /\ last'.ret # NoSuchToken
      ]_vars

----------------------------------------------------------------------------
(* Claims about the ledger, checked under SpecLedger *)

\* C11: the totals of the ledger never decrease from one entry to the next,
\* the first entry's total is its jobs_on_board, and every later entry, when
\* it is written, holds the first total plus the new jobs found by all runs
\* since the first entry, those whose ledger write failed included.
C11_LedgerTotals ==
    [][LET t == stats_snapshots'
       IN  /\ \A k \in 2..Len(t) :
                 t[k].total_jobs_ever >= t[k - 1].total_jobs_ever
           /\ t # <<>> => t[1].total_jobs_ever = t[1].jobs_on_board
           /\ (Len(t) > Len(stats_snapshots) /\ Len(t) > 1) =>
                 t[Len(t)].total_jobs_ever
                    = t[1].total_jobs_ever + history'.found
      ]_vars

----------------------------------------------------------------------------
(* Claims about concurrent store calls, checked under SpecRace *)

\* What the table and the two returns are when call a runs to its end
\* before call b starts.
SerialOutcome(a, b) ==
    LET first == CallAtOnce(race.start, race.calls[a], a, clock)
        second == CallAtOnce(first.tbl, race.calls[b], b, clock)
    IN  [tbl |-> second.tbl, ret |-> [i \in {a, b} |-> IF i = a THEN first.ret ELSE second.ret]]

\* C12: when two calls among add, confirm and remove on one row have both
\* returned, the table and the two return values are those of the calls run
\* one after the other, in one of the two orders.
C12_Serializable ==
    (race.phase = "run" /\ race.at = <<"done", "done">>) =>
        \E a, b \in {1, 2} :
            /\ a # b
            /\ subscribers = SerialOutcome(a, b).tbl
            /\ \A i \in {1, 2} : race.ret[i] = SerialOutcome(a, b).ret[i]

----------------------------------------------------------------------------
(* C13: who hears of which job *)

\* The letters i-n-t-e-r-n, in either case, stand somewhere in the title.
MentionsIntern(title) ==
    LET chars == TitleChars(title)
        word == <<"i", "n", "t", "e", "r", "n">>
    IN  \E at \in DOMAIN chars :
           \A k \in 1..6 : /\ at + k - 1 <= Len(chars)
                           /\ LowerChar(chars[at + k - 1]) = word[k]

Wanted(preference, title) ==
    \/ preference = "both"
    \/ preference = "internship" /\ MentionsIntern(title)
    \/ preference = "fulltime" /\ ~MentionsIntern(title)

Dispatched == pc = "write_new" /\ new_jobs # <<>> /\ HasMailCredentials

\* C13: after a dispatch the transport did not fail, every admin recipient
\* has one message listing all new jobs; every active and confirmed
\* subscriber that is not in the admin list has one message listing exactly
\* the new jobs its preference wants, when there is such a job, and none
\* otherwise; no message lists zero jobs.
C13_DispatchContent ==
    (Dispatched /\ ~history.failed) =>
        LET all == Listed(Deref(current_jobs, new_jobs))
            admin_recipients == environ.EMAIL_RECIPIENTS
            to_admins == SelectSeq(outbox, LAMBDA m : m.class = "admin")
        IN  /\ Len(to_admins) = Len(admin_recipients)
            /\ \A k \in DOMAIN to_admins :
                  /\ to_admins[k].to = admin_recipients[k]
                  /\ to_admins[k].jobs = all
            /\ \A r \in subscribers :
                  (Eligible(r) /\ r.email \notin Range(admin_recipients)) =>
                     LET want == SelectSeq(all, LAMBDA j :
                                             Wanted(r.preference, j.position))
                         got == SelectSeq(outbox, LAMBDA m :
                                   m.class = "subscriber" /\ m.to = r.email)
                     IN  IF want = <<>> THEN got = <<>>
                         ELSE Len(got) = 1 /\ got[1].jobs = want
            /\ \A k \in DOMAIN outbox : outbox[k].jobs # <<>>

\* A dispatch that listed, for a subscriber, fewer jobs than it found, one
\* of them under a title in capitals, beside the message of an admin.
C13_Witness ==
    /\ Dispatched /\ ~history.failed
    /\ \E k \in DOMAIN outbox : outbox[k].class = "admin"
    /\ \E k \in DOMAIN outbox :
          /\ outbox[k].class = "subscriber"
          /\ Len(outbox[k].jobs) < Len(new_jobs)
          /\ \E m \in DOMAIN outbox[k].jobs :
                outbox[k].jobs[m].position = "SUMMER INTERNSHIP"

----------------------------------------------------------------------------
(* C14: one message per address *)

\* C14: within one dispatch no address receives more than one message,
\* whatever the admin list: two messages of the outbox never go to the
\* same mailbox, letter case aside.
C14_OneMessagePerAddress ==
    \A k, m \in DOMAIN outbox :
        StripLower(outbox[k].to) = StripLower(outbox[m].to) => k = m

\* The same, for admin lists without a repeated entry.
C14_CaseOnly ==
    environ.EMAIL_RECIPIENTS # <<"admin@x.org", "admin@x.org">> =>
        C14_OneMessagePerAddress

----------------------------------------------------------------------------
(* C15: a transport failure stays inside the dispatch *)

\* C15: when the transport fails at a recipient, the messages that went out
\* are the ones planned before that recipient, each once, and none after
\* it; what was delivered stays delivered; the run leaves the dispatch for
\* the new-jobs artifact and goes on to write the artifact, the report, the
\* snapshot and the ledger entry.
C15_FailureContained ==
    [][/\ pc = "notify" =>
            LET planned == Messages(Deref(current_jobs, new_jobs),
                                    environ.EMAIL_RECIPIENTS, db_subscribers')
            IN  /\ pc' = "write_new"
                /\ Len(outbox') <= Len(planned)
                /\ outbox' = SubSeq(planned, 1, Len(outbox'))
                /\ history'.failed => Len(outbox') < Len(planned)
                /\ \A p \in DOMAIN delivered :
                      /\ p \in DOMAIN delivered'
                      /\ delivered'[p] = delivered[p] + Hits(outbox', p[1], p[2])
       /\ (pc = "write_new" /\ history.failed) => pc' = "save"
       /\ (pc = "save" /\ history.failed) => pc' = "stats"
       /\ (pc = "stats" /\ history.failed) =>
            /\ pc' = "idle"
            /\ [k \in DOMAIN new_jobs_file |-> new_jobs_file[k].id]
                  = [k \in DOMAIN new_jobs |-> current_jobs[new_jobs[k]].id]
            /\ readme_file = [k \in DOMAIN current_jobs |-> current_jobs[k].id]
            /\ jobs_file = current_jobs
            /\ Len(stats_snapshots') = Len(stats_snapshots) + 1
            /\ stats_snapshots'[Len(stats_snapshots')].new_jobs_found
                  = Len(new_jobs)
      ]_vars

\* A run whose transport failed after the first message and before the
\* last, with the artifact, the report and the snapshot written.
C15_Witness ==
    /\ pc = "stats"
    /\ history.failed
    /\ Len(outbox) >= 1
    /\ Len(outbox) + 1 < Len(Messages(Deref(current_jobs, new_jobs),
                                      environ.EMAIL_RECIPIENTS, db_subscribers))
    /\ new_jobs_file # <<>>
    /\ jobs_file # <<>>

----------------------------------------------------------------------------
(* C16: what an aborted dispatch left out *)

\* C16: the recipients an aborted dispatch did not reach are sent the jobs
\* they missed by the next run whose transport works, for the jobs that
\* are still on the board: such a run's dispatch carries every owed
\* <<address, job>> pair whose job the run fetched.
C16_MissedAreSentNext ==
    [][(pc = "notify" /\ pc' = "write_new" /\ ~history'.failed) =>
          \A p \in history.owed :
              (\E i \in DOMAIN current_jobs : current_jobs[i].id = p[2])
                  => p \in Pairs(outbox')
      ]_vars

----------------------------------------------------------------------------
(* C17: discovered_date and badges stay *)

\* C17: whenever a snapshot replaces the one before, every id that is in
\* both keeps the discovered_date and the badges it had, whatever the feed
\* says of its other fields now, and the run did not ask the provider about
\* a job whose badges it carried forward.
C17_MetadataStays ==
    [][(pc = "save" /\ pc' = "stats") =>
          \A k \in DOMAIN jobs_file : \A m \in DOMAIN jobs_file' :
              jobs_file[k].id = jobs_file'[m].id =>
                  /\ HasKey(jobs_file[k], "discovered_date") =>
                        /\ HasKey(jobs_file'[m], "discovered_date")
                        /\ jobs_file'[m].discovered_date
                              = jobs_file[k].discovered_date
                  /\ HasKey(jobs_file[k], "badges") =>
                        /\ HasKey(jobs_file'[m], "badges")
                        /\ jobs_file'[m].badges = jobs_file[k].badges
                        /\ jobs_file[k].id \notin history.asked
      ]_vars

\* A later run has saved, under a new title, a job it found in the
\* snapshot before, with the date and the badges of that snapshot.
C17_Witness ==
    /\ pc = "stats"
    /\ clock > 0
    /\ \E k \in DOMAIN existing_jobs : \E m \in DOMAIN jobs_file :
          /\ existing_jobs[k].id = jobs_file[m].id
          /\ existing_jobs[k].position # jobs_file[m].position
          /\ HasKey(existing_jobs[k], "badges")
          /\ existing_jobs[k].badges = "badges_b"
          /\ jobs_file[m].badges = "badges_b"
          /\ HasKey(existing_jobs[k], "discovered_date")
          /\ jobs_file[m].discovered_date = 0

----------------------------------------------------------------------------
(* C18: the new-jobs artifact *)

\* C18: the step of a run that leaves the new-jobs artifact behind leaves
\* in it exactly the records the run classified as new, in their order and
\* without the raw description, and so nothing when the run found no new
\* job, whatever the file held before.
C18_ArtifactIsThisRun ==
    [][(pc = "write_new" /\ pc' = "save") =>
          /\ Len(new_jobs_file') = Len(new_jobs)
          /\ \A k \in DOMAIN new_jobs :
                new_jobs_file'[k] =
                    PopKey(current_jobs[new_jobs[k]], "_description_html")
      ]_vars

----------------------------------------------------------------------------
(* C19: the snapshot is the board of the run *)

\* C19: the snapshot a run persists has, record for record and in the same
\* order, the ids the run fetched from the board; every field of a record
\* other than discovered_date and badges is as fetched, less the raw
\* description; discovered_date and badges of an id of the previous
\* snapshot are the previous ones; an id of the previous snapshot that the
\* run did not fetch is gone.
C19_SnapshotIsBoard ==
    [][(pc = "save" /\ pc' = "stats") =>
          \E responses \in [1..MaxFeedPages -> FeedOutcomes] :
             LET fetched == ParseJobBoard(upstream, responses)
             IN  /\ Len(jobs_file') = Len(fetched)
                 /\ \A i \in DOMAIN fetched :
                       /\ jobs_file'[i].id = fetched[i].id
                       /\ OtherFields(jobs_file'[i])
                             = PopKey(fetched[i], "_description_html")
                       /\ \A k \in DOMAIN jobs_file :
                             (/\ jobs_file[k].id = fetched[i].id
                              /\ HasKey(jobs_file[k], "discovered_date")) =>
                                 jobs_file'[i].discovered_date
                                     = jobs_file[k].discovered_date
                 /\ \A k \in DOMAIN jobs_file :
                       (\A i \in DOMAIN fetched :
                           fetched[i].id # jobs_file[k].id) =>
                          \A m \in DOMAIN jobs_file' :
                              jobs_file'[m].id # jobs_file[k].id
      ]_vars

\* A run has replaced a snapshot of two jobs by one of one job, under a
\* new title and with the date and the badges it had.
C19_Witness ==
    /\ pc = "stats"
    /\ Len(existing_jobs) = 2
    /\ Len(jobs_file) = 1
    /\ \E k \in DOMAIN existing_jobs :
          /\ existing_jobs[k].id = jobs_file[1].id
          /\ existing_jobs[k].position # jobs_file[1].position
          /\ HasKey(existing_jobs[k], "badges")
          /\ SameMeta(existing_jobs[k], jobs_file[1])

----------------------------------------------------------------------------
(* C20: the raw description is never persisted *)

\* C20: no record of the persisted snapshot and no record of the new-jobs
\* artifact has the key _description_html, after any run, for new, enriched
\* and backfilled jobs alike.
C20_NoRawDescription ==
    /\ \A k \in DOMAIN jobs_file : ~HasKey(jobs_file[k], "_description_html")
    /\ \A k \in DOMAIN new_jobs_file :
          ~HasKey(new_jobs_file[k], "_description_html")

\* A run that found nothing new has saved a job whose badges it asked the
\* provider for, beside an artifact an earlier run wrote.
C20_Witness ==
    /\ pc = "stats"
    /\ new_jobs = <<>>
    /\ new_jobs_file # <<>>
    /\ \E k \in DOMAIN jobs_file :
          /\ jobs_file[k].id \in history.asked
          /\ HasKey(jobs_file[k], "badges")

----------------------------------------------------------------------------
(* C21: the ids of a snapshot *)

\* C21: in every persisted snapshot the job ids are pairwise distinct,
\* whatever the feed does, a listing posted between two page requests of
\* one run included.
C21_SnapshotIdsDistinct ==
    \A k, m \in DOMAIN jobs_file : jobs_file[k].id = jobs_file[m].id => k = m

----------------------------------------------------------------------------
(* C22: a provider that fails *)

NoResult == {"not json", "error"}

\* C22: extract_badges returns without raising, so both enrichment loops
\* go on to the next stage; a job gains badges in them only with the key
\* set and an answer of the provider that is neither text that is no JSON
\* nor an error; a job this run got nothing else for is saved without
\* badges (unless the snapshot before had them); the save writes the
\* snapshot and the report; and without the key the warning is logged at
\* most once in a run.
C22_ProviderFailureTolerated ==
    [][/\ pc \in {"enrich", "backfill"} =>
            /\ pc' = (IF pc = "enrich" THEN "backfill" ELSE "notify")
            /\ \A i \in DOMAIN current_jobs :
                  (/\ ~HasKey(current_jobs[i], "badges")
                   /\ HasKey(current_jobs'[i], "badges")) =>
                      /\ environ.ANTHROPIC_API_KEY
                      /\ \E p \in history'.answers :
                            p[1] = current_jobs[i].id /\ p[2] \notin NoResult
       /\ pc = "save" =>
            /\ pc' = "stats"
            /\ Len(jobs_file') = Len(current_jobs)
            /\ readme_file' = [i \in DOMAIN current_jobs |-> current_jobs[i].id]
            /\ \A m \in DOMAIN jobs_file' :
                  (/\ \/ ~environ.ANTHROPIC_API_KEY
                      \/ \A p \in history.answers :
                            p[1] = jobs_file'[m].id => p[2] \in NoResult
                   /\ \A k \in DOMAIN jobs_file :
                         jobs_file[k].id = jobs_file'[m].id
                            => ~HasKey(jobs_file[k], "badges"))
                     => ~HasKey(jobs_file'[m], "badges")
       /\ ~environ.ANTHROPIC_API_KEY => history'.warnings <= 1
      ]_vars

\* A run has saved without badges a job for which the provider first
\* raised and then answered with text that is no JSON.
C22_Witness ==
    /\ pc = "stats"
    /\ environ.ANTHROPIC_API_KEY
    /\ \E m \in DOMAIN jobs_file :
          /\ ~HasKey(jobs_file[m], "badges")
          /\ <<jobs_file[m].id, "error">> \in history.answers
          /\ <<jobs_file[m].id, "not json">> \in history.answers

\* Without the key, a run has called extract_badges for two jobs.
C22_WarnedOnce ==
    /\ pc = "stats"
    /\ ~environ.ANTHROPIC_API_KEY
    /\ Len(new_jobs) = 2
    /\ history.warnings = 1

----------------------------------------------------------------------------
(* C23: every job without badges is submitted *)

\* C23: when the enrichment of a run is over, every job of the board that
\* has no badges has been submitted to the provider in this run.
C23_EveryUntaggedSubmitted ==
    [][(pc = "backfill" /\ pc' = "notify") =>
          \A i \in DOMAIN current_jobs :
              ~HasKey(current_jobs[i], "badges")
                  => current_jobs[i].id \in history'.asked
      ]_vars

\* C23, amended: with the provider's key set, every job of the board that
\* has a description and no badges has been submitted to the provider when
\* the enrichment of the run is over, and every job the provider answered
\* with a badge object in this run has badges.
C23_UntaggedWithTextSubmitted ==
    [][(pc = "backfill" /\ pc' = "notify") =>
          \A i \in DOMAIN current_jobs :
              /\ (/\ environ.ANTHROPIC_API_KEY
                  /\ ~HasKey(current_jobs[i], "badges")
                  /\ HasKey(current_jobs[i], "_description_html")
                  /\ current_jobs[i]._description_html # "")
                    => current_jobs[i].id \in history'.asked
              /\ (\E p \in history'.answers :
                     p[1] = current_jobs[i].id /\ p[2] \in ProviderAnswers)
                    => HasKey(current_jobs'[i], "badges")
      ]_vars

\* A run that found nothing new has asked the provider again about a job
\* an earlier run saved without badges, and has tagged it.
C23_Witness ==
    /\ pc = "notify"
    /\ new_jobs = <<>>
    /\ \E i \in DOMAIN current_jobs : \E k \in DOMAIN existing_jobs :
          /\ existing_jobs[k].id = current_jobs[i].id
          /\ ~HasKey(existing_jobs[k], "badges")
          /\ current_jobs[i].id \in history.asked
          /\ HasKey(current_jobs[i], "badges")

----------------------------------------------------------------------------
(* C24: a ledger write that fails *)

\* C24: a call of record_stats_snapshot that fails returns false and leaves
\* the ledger as it was; the step of main() that makes the call ends the
\* run, appends at most one entry to the ledger, and leaves the snapshot
\* and the report, written before it, as they are.
C24_LedgerFailureNonFatal ==
    [][pc = "stats" =>
          /\ pc' = "idle"
          /\ \A active_subscribers \in 0..Cardinality(subscribers) :
                RecordStatsSnapshot(stats_snapshots, Len(current_jobs),
                                    Len(new_jobs), active_subscribers, FALSE)
                    = [tbl |-> stats_snapshots, ret |-> FALSE]
          /\ Len(stats_snapshots') \in {Len(stats_snapshots),
                                        Len(stats_snapshots) + 1}
          /\ SubSeq(stats_snapshots', 1, Len(stats_snapshots)) = stats_snapshots
          /\ jobs_file = current_jobs
          /\ jobs_file' = jobs_file
          /\ readme_file = [i \in DOMAIN current_jobs |-> current_jobs[i].id]
          /\ readme_file' = readme_file
      ]_vars

\* The first run is over, its snapshot is written and the ledger is empty:
\* its ledger write has failed.
C24_Witness ==
    /\ pc = "idle"
    /\ runs = 1
    /\ jobs_file # <<>>
    /\ readme_file # <<>>
    /\ stats_snapshots = <<>>

----------------------------------------------------------------------------
(* C25: no stage after the fetch stops the run *)

\* C25: once parse_job_board has returned, no stage stops the run before
\* the snapshot is written: from the reading of the previous snapshot to
\* the save, the run never ends in a crash.
C25_NoAbortAfterFetch ==
    [][(pc \in {"load", "merge", "diff", "enrich", "backfill", "notify",
                "write_new", "save"}) => (pc' # "crashed")]_vars

----------------------------------------------------------------------------
(* C26: the attempts of one page request *)

\* an attempt that ended in an exception
Raised(outcome) == outcome \in {"timeout", "http_error"}

\* C26: one call of fetch_rss_page makes at most FETCH_RETRIES + 1 attempts,
\* every attempt before the last one it made raised, it returns what the
\* first attempt that did not raise gave, it returns None when all
\* FETCH_RETRIES + 1 attempts raised, and it slept once between two
\* attempts and never after the last.
C26_BoundedRetry ==
    (fetch.phase \in {"loop", "break", "returned"} /\ fetch.call.made > 0) =>
        LET call == fetch.call
        IN  /\ call.made \in 1..(FETCH_RETRIES + 1)
            /\ Len(call.outcomes) = call.made
            /\ \A k \in 1..(call.made - 1) : Raised(call.outcomes[k])
            /\ call.slept = call.made - 1
            /\ IF Raised(call.outcomes[call.made])
               THEN call.made = FETCH_RETRIES + 1 /\ call.response = "down"
               ELSE call.response = call.outcomes[call.made]

\* a call whose first two attempts raised and whose third gave the page
C26_Witness ==
    /\ fetch.phase \in {"loop", "break"}
    /\ fetch.call.made = FETCH_RETRIES + 1
    /\ fetch.call.response = "ok"
    /\ fetch.call.slept = FETCH_RETRIES

\* a call whose attempts all raised: it returned None
C26_AllFailed ==
    /\ fetch.phase = "break"
    /\ fetch.call.made = FETCH_RETRIES + 1
    /\ fetch.call.response = "down"

----------------------------------------------------------------------------
(* C27: every kind of failure is retried *)

\* C27: an attempt that ended in anything but a feed (a timeout, a response
\* that is not 2xx, a body that is no feed) is followed by another attempt
\* on the same page unless it was the last one allowed, and a page that
\* gave no feed counts as a failed page, not as an empty page at the end
\* of the board.
C27_EveryFailureRetried ==
    (fetch.phase \in {"loop", "break", "returned"} /\ fetch.call.made > 0) =>
        LET call == fetch.call
        IN  /\ \A k \in 1..call.made :
                  call.outcomes[k] # "ok" =>
                      (k < call.made \/ k = FETCH_RETRIES + 1)
            /\ call.response # "ok" =>
                  fetch.failed_page = fetch.requested[Len(fetch.requested)]

----------------------------------------------------------------------------
(* C28: the page loop *)

\* the jobs of a sequence of pages, in page order
RECURSIVE JobsOfPages(_)
JobsOfPages(pages) ==
    IF pages = <<>> THEN <<>>
    ELSE JobsOfPages(SubSeq(pages, 1, Len(pages) - 1)) \o
         [k \in DOMAIN pages[Len(pages)] |->
             JobOfEntry(pages[Len(pages)][k])]

\* C28: the pages asked for are 1, 2, 3, ... in this order and none is above
\* MAX_PAGES; a page is asked for only after full pages, so that the loop
\* stops after the first page that failed, was empty or was short; no more
\* than FETCH_RETRIES + 1 attempts are made per page and MAX_PAGES *
\* (FETCH_RETRIES + 1) in all; and the jobs collected, which are the result,
\* are those of the pages that came back with entries, in page order.
C28_PageLoop ==
    fetch.phase \in {"loop", "break", "returned"} =>
        LET n == Len(fetch.requested)
            got == Len(fetch.served)
        IN  /\ \A k \in 1..n : fetch.requested[k] = k
            /\ n <= MAX_PAGES
            /\ got \in {n - 1, n} \ {-1}
            /\ \A k \in 1..got :
                  (k < n \/ fetch.phase = "loop") =>
                      Len(fetch.served[k]) = JOBS_PER_PAGE
            /\ fetch.phase = "loop" => (got = n /\ fetch.page = n + 1)
            /\ (fetch.phase = "returned" /\ n < MAX_PAGES) =>
                  (got < n \/ Len(fetch.served[n]) < JOBS_PER_PAGE)
            /\ fetch.attempts <= n * (FETCH_RETRIES + 1)
            /\ fetch.attempts <= MAX_PAGES * (FETCH_RETRIES + 1)
            /\ fetch.jobs = JobsOfPages(fetch.served)
            /\ (fetch.phase = "returned" /\ pc = "load") =>
                  current_jobs = JobsOfPages(fetch.served)

\* a board of more than MAX_PAGES full pages: the loop asked for MAX_PAGES
\* pages and returned their jobs
C28_Witness ==
    /\ fetch.phase = "returned"
    /\ Len(fetch.requested) = MAX_PAGES
    /\ Len(current_jobs) = MAX_PAGES * JOBS_PER_PAGE
    /\ Len(upstream) > MAX_PAGES * JOBS_PER_PAGE

----------------------------------------------------------------------------
(* C29: a page that fails leaves a partial board, and the run goes on *)

IdsOf(jobs) == [k \in DOMAIN jobs |-> jobs[k].id]

\* the jobs of the pages that came back before the page that failed
PartialBoard == JobsOfPages(fetch.served)

\* C29: when page k has failed after all its attempts, the pages 1..k-1 are
\* the board of the run: the run does not end there, every listing of these
\* pages is diffed against the previous snapshot (here an empty one, so all
\* are new), mail is sent for them, they are what the new-jobs artifact and
\* the snapshot hold, and the ledger entry counts them.
C29_PartialBoardAccepted ==
    (fetch.phase = "returned" /\ fetch.failed_page > 0) =>
        /\ Len(fetch.served) = fetch.failed_page - 1
        /\ pc # "crashed"
        /\ pc \notin {"idle", "fetch"} =>
              IdsOf(current_jobs) = IdsOf(PartialBoard)
        /\ pc \in {"enrich", "backfill", "notify", "write_new", "save", "stats"} =>
              IdsOf(Deref(current_jobs, new_jobs)) = IdsOf(PartialBoard)
        /\ (pc \in {"write_new", "save", "stats"} /\ PartialBoard # <<>>) =>
              outbox # <<>>
        /\ pc \in {"save", "stats"} =>
              IdsOf(new_jobs_file) = IdsOf(PartialBoard)
        /\ pc \in {"stats", "idle"} =>
              IdsOf(jobs_file) = IdsOf(PartialBoard)
        /\ pc = "idle" =>
              /\ stats_snapshots # <<>>
              /\ stats_snapshots[Len(stats_snapshots)].jobs_on_board
                    = Len(PartialBoard)
              /\ stats_snapshots[Len(stats_snapshots)].new_jobs_found
                    = Len(PartialBoard)

\* page 2 failed: the run ended with the ten listings of page 1 as snapshot
C29_Witness ==
    /\ fetch.phase = "returned"
    /\ fetch.failed_page = 2
    /\ pc = "idle"
    /\ Len(jobs_file) = JOBS_PER_PAGE
    /\ stats_snapshots # <<>>

\* page 1 failed: the run ended with an empty snapshot
C29_EmptyBoard ==
    /\ fetch.phase = "returned"
    /\ fetch.failed_page = 1
    /\ pc = "idle"
    /\ jobs_file = <<>>
    /\ stats_snapshots # <<>>

----------------------------------------------------------------------------
(* C30: only badge objects are attached *)

\* the JSON objects of the badge schema
BadgeObjects == ProviderAnswers \cup BadgeSets

\* C30: a badges value is attached only when the provider answered with a
\* JSON object of the badge schema: every badges value of a job of the run
\* and of the snapshot is such an object, and no job makes badge_html raise.
C30_BadgesAreObjects ==
    /\ \A k \in DOMAIN current_jobs :
          /\ HasKey(current_jobs[k], "badges") =>
                current_jobs[k].badges \in BadgeObjects
          /\ ~BadgeHtmlRaises(current_jobs[k])
    /\ \A k \in DOMAIN jobs_file :
          HasKey(jobs_file[k], "badges") => jobs_file[k].badges \in BadgeObjects

----------------------------------------------------------------------------
(* C31: a run without mail credentials *)

\* jobs as they are written to a file: without the description
Written(jobs) == [k \in DOMAIN jobs |-> PopKey(jobs[k], "_description_html")]

\* without the sender or the password nothing is sent, the subscribers are
\* not read for the dispatch and no session is there to fail
NothingSent ==
    (~environ.EMAIL_SENDER \/ ~environ.EMAIL_PASSWORD) =>
        /\ outbox = <<>>
        /\ delivered = <<>>
        /\ db_subscribers = <<>>
        /\ ~history.failed

\* what the run has written once it has found new jobs, with credentials
\* or without
ArtifactsWritten ==
    /\ (pc \in {"save", "stats"} /\ new_jobs # <<>>) =>
          new_jobs_file = Written(Deref(current_jobs, new_jobs))
    /\ pc = "stats" =>
          /\ jobs_file = Written(current_jobs)
          /\ readme_file = IdsOf(current_jobs)

\* the ledger entry the last step of a run appends, with credentials or
\* without
LedgerAppended ==
    pc = "stats" =>
        /\ Len(stats_snapshots') = Len(stats_snapshots) + 1
        /\ LET entry == stats_snapshots'[Len(stats_snapshots')]
           IN  /\ entry.jobs_on_board = Len(current_jobs)
               /\ entry.new_jobs_found = Len(new_jobs)
               /\ entry.active_subscribers =
                     Cardinality({r \in subscribers : r.active /\ r.confirmed})
        /\ pc' = "idle"

\* C31: with the sender or the password missing, a run sends no message and
\* opens no session, and the new-jobs artifact, the report, the snapshot and
\* the ledger entry are the ones every run writes from its board and its
\* new jobs, whatever the credentials.
C31_NoCredentialsNoMail ==
    [](NothingSent /\ ArtifactsWritten) /\ [][LedgerAppended]_vars

\* a run without the password found a new job and ended: nothing was sent,
\* and the artifact, the snapshot and the ledger entry are there
C31_Witness ==
    /\ environ.EMAIL_SENDER /\ ~environ.EMAIL_PASSWORD
    /\ pc = "idle"
    /\ outbox = <<>>
    /\ new_jobs_file # <<>>
    /\ jobs_file # <<>>
    /\ stats_snapshots # <<>>
    /\ stats_snapshots[Len(stats_snapshots)].new_jobs_found > 0

----------------------------------------------------------------------------
(* C32: what a confirmation changes *)

\* the rows a confirmation with this token is for: pending rows that hold it
PendingWith(tbl, token) ==
    {r \in tbl : r.unsubscribe_token = token /\ r.active /\ ~r.confirmed}

\* a step in which confirm_subscriber was called and answered
ConfirmAnswered == last' # last /\ last'.op = "confirm" /\ last'.called

\* C32: confirm_subscriber returns true exactly when a pending row holds the
\* token, and then only such rows change, to confirmed; with a token that was
\* replaced, that belongs to an inactive or to a confirmed row, or that was
\* never issued, it returns false and the table stays as it was; no row
\* that was inactive is active afterwards.
C32_ConfirmOnlyPending ==
    [][ConfirmAnswered =>
          LET pending == PendingWith(subscribers, last'.token)
          IN  /\ last'.ret = (last'.db_ok /\ pending # {})
              /\ last'.ret =>
                    subscribers' = (subscribers \ pending) \cup
                        {[r EXCEPT !.confirmed = TRUE] : r \in pending}
              /\ ~last'.ret => subscribers' = subscribers
              /\ last'.was # "pending" => ~last'.ret
              /\ \A r \in subscribers' :
                    r.active => \E x \in subscribers :
                                   x.email = r.email /\ x.active]_vars

\* the token of an unsubscribed row was presented: the answer was false and
\* the row is inactive as before
C32_Witness ==
    /\ last.op = "confirm" /\ last.called /\ last.db_ok
    /\ last.was = "inactive"
    /\ ~last.ret
    /\ \E r \in subscribers : r.unsubscribe_token = last.token /\ ~r.active

\* the token a repeat subscribe replaced was presented: the answer was false
\* and the row is pending as before
C32_ReplacedToken ==
    /\ last.op = "confirm" /\ last.called /\ last.db_ok
    /\ last.token \in 1..issued
    /\ last.was = "absent"
    /\ ~last.ret
    /\ \E r \in subscribers :
          r.unsubscribe_token > last.token /\ r.active /\ ~r.confirmed

----------------------------------------------------------------------------
(* C33: a database that cannot be reached *)

\* C33: a failure of the database in main() does not keep the run from
\* fetching the feed and writing the snapshot and the report: after an
\* init_db of main() that failed, the run is not over.
C33_DatabaseNeverStopsRun ==
    (last.op = "init_db" /\ last.by = "main" /\ ~last.db_ok) => pc # "crashed"

----------------------------------------------------------------------------
(* C34: one request per job and run *)

\* C34: the provider is asked at most once per job in one run: when the
\* backfill pass begins, none of the jobs it is about to submit has been
\* submitted by the new-jobs pass of this run.
C34_OncePerJobPerRun ==
    pc = "backfill" =>
        \A n \in BackfillCalled(current_jobs) :
            ReachesProvider(current_jobs[n]) =>
                current_jobs[n].id \notin history.asked

====
